---------------------------- MODULE Spec2Model ----------------------------
(***************************************************************************)
(* A model of the Amazon order-history scraper in its three versions:      *)
(*   version 1  src/unnamed/part_000     listing page, one inline script   *)
(*   version 2  src/get-order-history.js listing page, split in functions  *)
(*   version 3  src/unnamed/part_001     details page per order            *)
(* Texts are sequences of one-character strings, so that the regular       *)
(* expressions, the trimming and the CSV quoting of the code are computed  *)
(* character by character.                                                 *)
(***************************************************************************)
EXTENDS Integers, Sequences, FiniteSets, TLC

VARIABLES
    inp,            \* text layer: the argument handed to a helper
    res,            \* text layer: what the helper returned
    version,        \* 1, 2 or 3: which of the three scripts runs
    argv,           \* <<>> or <<text>>: process.argv[2]
    currentYear,    \* new Date().getFullYear()
    pc,             \* where the script stands
    browser,        \* "none", "open", "closed"
    cookieFile,     \* the cookie file: "absent", "corrupt", "stored"
    hadCookies,     \* main: const hadCookies
    caller,         \* who called ensureSignedInAndOnOrders: "main", "processYear"
    elapsed,        \* waitUntil: Date.now() - start, in sleep intervals
    timedOut,       \* waitUntil has thrown "Timed out waiting for condition"
    csv,            \* the CSV file: the texts written to it, in order
    headerWrites,   \* how often fsp.writeFile has written the CSV file
    years,          \* main: const years
    yi,             \* main: the position in years (i + 1)
    started,        \* the years logged by "STARTING <year>"
    siteOrders,     \* how many orders the site holds for the year at hand
    runningTotal,   \* main: let runningTotal
    yearTotal,      \* processYear: let yearTotal
    articleOffset,  \* processYear: let articleOffset
    pageNumber,     \* processYear: let pageNumber
    listUrl,        \* processYear: const listUrl, as <<year, startIndex>>
    shown,          \* the page the tab shows, as <<site, year, startIndex>>
    pending,        \* processYear: the $eval calls of Promise.all not yet settled
    orderEls,       \* processYear: const orderEls
    countInPage,    \* processYear: const countInPage
    oi,             \* processYear: the position in orderEls (i + 1)
    console         \* the warnings (console.warn) of the latest step

textVars == <<inp, res>>

runVars ==
    <<version, argv, currentYear, pc, browser, cookieFile, hadCookies, caller,
      elapsed, timedOut, csv, headerWrites, years, yi, started, siteOrders,
      runningTotal, yearTotal, articleOffset, pageNumber, listUrl, orderEls,
      countInPage, oi, console, shown, pending>>

vars == <<textVars, runVars>>

(***************************************************************************)
(* Characters and the JavaScript string primitives the code uses           *)
(***************************************************************************)
DigitChars == {"0", "1", "2", "3", "4", "5", "6", "7", "8", "9"}

SpaceChars == {" ", "\n", "\t"}

IsDigit(c) == c \in DigitChars

IsSpace(c) == c \in SpaceChars

DigitVal(c) ==
    CASE c = "0" -> 0 [] c = "1" -> 1 [] c = "2" -> 2 [] c = "3" -> 3
      [] c = "4" -> 4 [] c = "5" -> 5 [] c = "6" -> 6 [] c = "7" -> 7
      [] c = "8" -> 8 [] c = "9" -> 9

DigitChar(d) ==
    CASE d = 0 -> "0" [] d = 1 -> "1" [] d = 2 -> "2" [] d = 3 -> "3"
      [] d = 4 -> "4" [] d = 5 -> "5" [] d = 6 -> "6" [] d = 7 -> "7"
      [] d = 8 -> "8" [] d = 9 -> "9"

UpperLetters == <<"A","B","C","D","E","F","G","H","I","J","K","L","M","N",
                "O","P","Q","R","S","T","U","V","W","X","Y","Z">>

LowerLetters == <<"a","b","c","d","e","f","g","h","i","j","k","l","m","n",
                "o","p","q","r","s","t","u","v","w","x","y","z">>

\* s.toLowerCase() on one character; also the /i flag of the regular expressions
Lower(c) ==
    IF \E i \in 1 .. 26 : UpperLetters[i] = c
    THEN LowerLetters[CHOOSE i \in 1 .. 26 : UpperLetters[i] = c]
    ELSE c

ToLower(s) == [i \in 1 .. Len(s) |-> Lower(s[i])]

\* \w
IsWordChar(c) ==
    \/ IsDigit(c)
    \/ c = "_"
    \/ \E i \in 1 .. 26 : c = UpperLetters[i] \/ c = LowerLetters[i]

\* s.includes(w)
Includes(s, w) ==
    \E i \in 1 .. Len(s) - Len(w) + 1 : SubSeq(s, i, i + Len(w) - 1) = w

\* s.split("\n")[0]
FirstLine(s) ==
    LET RECURSIVE upTo(_)
        upTo(i) == IF i > Len(s) \/ s[i] = "\n" THEN i - 1 ELSE upTo(i + 1)
    IN SubSeq(s, 1, upTo(1))

\* the index of the first character at or after i that is no white space
RECURSIVE SkipSpaces(_, _)
SkipSpaces(s, i) ==
    IF i <= Len(s) /\ IsSpace(s[i]) THEN SkipSpaces(s, i + 1) ELSE i

\* the number of digits that start at i
RECURSIVE DigitRun(_, _)
DigitRun(s, i) ==
    IF i <= Len(s) /\ IsDigit(s[i]) THEN 1 + DigitRun(s, i + 1) ELSE 0

\* String.prototype.trim
RECURSIVE TrimEnd(_)
TrimEnd(s) ==
    IF s # <<>> /\ IsSpace(s[Len(s)]) THEN TrimEnd(SubSeq(s, 1, Len(s) - 1)) ELSE s

Trim(s) == TrimEnd(SubSeq(s, SkipSpaces(s, 1), Len(s)))

\* s.replace(/\s+/g, " ")
RECURSIVE CollapseSpaces(_)
CollapseSpaces(s) ==
    IF s = <<>> THEN <<>>
    ELSE IF IsSpace(s[1])
         THEN <<" ">> \o CollapseSpaces(SubSeq(s, SkipSpaces(s, 1), Len(s)))
         ELSE <<s[1]>> \o CollapseSpaces(Tail(s))

\* s.replace(/[^\d.]/g, "")
RECURSIVE KeepDigitsAndDots(_)
KeepDigitsAndDots(s) ==
    IF s = <<>> THEN <<>>
    ELSE (IF IsDigit(s[1]) \/ s[1] = "." THEN <<s[1]>> ELSE <<>>)
             \o KeepDigitsAndDots(Tail(s))

\* s.replace(/;/g, ",")
ReplaceSemicolons(s) == [i \in 1 .. Len(s) |-> IF s[i] = ";" THEN "," ELSE s[i]]

\* s.slice(0, n)
Slice0(s, n) == SubSeq(s, 1, IF Len(s) < n THEN Len(s) ELSE n)

\* the index of the first c in s, 0 when there is none
RECURSIVE IndexOf(_, _, _)
IndexOf(s, c, i) ==
    IF i > Len(s) THEN 0 ELSE IF s[i] = c THEN i ELSE IndexOf(s, c, i + 1)

\* the value of a run of digits
RECURSIVE DigitsValue(_)
DigitsValue(s) ==
    IF s = <<>> THEN 0 ELSE 10 * DigitsValue(SubSeq(s, 1, Len(s) - 1)) + DigitVal(s[Len(s)])

\* the digits of parseInt from q on, under the sign found before them
SignedDigits(s, q, sign) ==
    IF DigitRun(s, q) = 0 THEN <<>>
    ELSE IF sign = "-" THEN <<0 - DigitsValue(SubSeq(s, q, q + DigitRun(s, q) - 1))>>
    ELSE <<DigitsValue(SubSeq(s, q, q + DigitRun(s, q) - 1))>>

\* parseInt from the first character p that is no white space
ParseIntFrom(s, p) ==
    IF p <= Len(s) /\ s[p] \in {"-", "+"} THEN SignedDigits(s, p + 1, s[p])
    ELSE SignedDigits(s, p, "+")

\* parseInt(s, 10): white space, a sign, then the leading digits; <<>> is NaN
parseInt(s) == ParseIntFrom(s, SkipSpaces(s, 1))

\* parseInt(...) || d : NaN and 0 are falsy
OrElse(p, d) == IF p = <<>> \/ p[1] = 0 THEN d ELSE p[1]

\* String(n) for an integer n >= 0
RECURSIVE String(_)
String(n) ==
    IF n < 10 THEN <<DigitChar(n)>> ELSE String(n \div 10) \o <<DigitChar(n % 10)>>

\* s.split(".") from the dot found at index dot (0: no dot is left)
RECURSIVE SplitDots(_, _)
SplitDots(s, dot) ==
    IF dot = 0 THEN <<s>>
    ELSE <<SubSeq(s, 1, dot - 1)>>
           \o SplitDots(SubSeq(s, dot + 1, Len(s)),
                        IndexOf(SubSeq(s, dot + 1, Len(s)), ".", 1))

(***************************************************************************)
(* Currency helpers                                                        *)
(***************************************************************************)
\* \.\d{2} at i
FracAt(s, i) ==
    /\ i + 2 <= Len(s)
    /\ s[i] = "."
    /\ IsDigit(s[i + 1])
    /\ IsDigit(s[i + 2])

\* the most groups (,\d{3}) that follow one another from i
RECURSIVE GroupsAt(_, _)
GroupsAt(s, i) ==
    IF /\ i + 3 <= Len(s)
       /\ s[i] = ","
       /\ IsDigit(s[i + 1]) /\ IsDigit(s[i + 2]) /\ IsDigit(s[i + 3])
    THEN 1 + GroupsAt(s, i + 4)
    ELSE 0

\* (,\d{3})*\.\d{2} from i, the star greedy: g groups first, then fewer.
\* The index of the last character matched, 0 when nothing matches.
RECURSIVE GroupsThenFrac(_, _, _)
GroupsThenFrac(s, i, g) ==
    IF FracAt(s, i + 4 * g) THEN i + 4 * g + 2
    ELSE IF g = 0 THEN 0 ELSE GroupsThenFrac(s, i, g - 1)

\* the first of two match ends that is a match
FirstMatch(a, b) == IF a # 0 THEN a ELSE b

\* \d{1,3}(,\d{3})*\.\d{2} from p, \d{1,3} greedy: d digits first, then fewer
RECURSIVE CommaAmount(_, _, _)
CommaAmount(s, p, d) ==
    IF d = 0 THEN 0
    ELSE IF GroupsThenFrac(s, p + d, GroupsAt(s, p + d)) # 0
    THEN GroupsThenFrac(s, p + d, GroupsAt(s, p + d))
    ELSE CommaAmount(s, p, d - 1)

\* \d+\.\d{2} from p, \d+ greedy: d digits first, then fewer
RECURSIVE PlainAmount(_, _, _)
PlainAmount(s, p, d) ==
    IF d = 0 THEN 0
    ELSE IF FracAt(s, p + d) THEN p + d + 2 ELSE PlainAmount(s, p, d - 1)

\* an alternation that lost its \d+ branch
AmountDigitsCommaOnly(s, p, run) == CommaAmount(s, p, IF run < 3 THEN run ELSE 3)

\* (\d{1,3}(,\d{3})*|\d+)\.\d{2} from p, where run digits start: the first
\* alternative is tried first, the second when the first cannot match
AmountDigits(s, p, run) ==
    FirstMatch(CommaAmount(s, p, IF run < 3 THEN run ELSE 3), PlainAmount(s, p, run))

\* \s*(...)\.\d{2} from p, the first character that is no white space
AmountFrom(s, p) == AmountDigits(s, p, DigitRun(s, p))

\* /\$?\s*(\d{1,3}(,\d{3})*|\d+)\.\d{2}/ anchored at i: the index of the last
\* character matched, 0 when there is no match at i. Giving back the "$" or a
\* white space never helps: the digit that must follow would face that character.
AmountAt(s, i) ==
    AmountFrom(s, SkipSpaces(s, IF i <= Len(s) /\ s[i] = "$" THEN i + 1 ELSE i))

\* s.match(...): the leftmost match as <<first, last>>, <<>> when there is none
RECURSIVE AmountMatch(_, _)
RECURSIVE MatchOrNext(_, _, _)
MatchOrNext(s, i, e) == IF e # 0 THEN <<i, e>> ELSE AmountMatch(s, i + 1)

AmountMatch(s, i) == IF i > Len(s) THEN <<>> ELSE MatchOrNext(s, i, AmountAt(s, i))

\* const [dollars, cents = "00"] = normalized.split(".");
\* return (parseInt(dollars, 10) || 0) * 100 + (parseInt(cents, 10) || 0);
DollarsAndCents(parts) ==
    OrElse(parseInt(parts[1]), 0) * 100
        + OrElse(parseInt(IF Len(parts) >= 2 THEN parts[2] ELSE <<"0", "0">>), 0)

\* const normalized = m[0].replace(/[^\d.]/g, "");
Normalized(normalized) == DollarsAndCents(SplitDots(normalized, IndexOf(normalized, ".", 1)))

\* if (!m) return 0;
CentsOfMatch(s, m) ==
    IF m = <<>> THEN 0 ELSE Normalized(KeepDigitsAndDots(SubSeq(s, m[1], m[2])))

\* const m = s.match(/\$?\s*(\d{1,3}(,\d{3})*|\d+)\.\d{2}/);
CentsOfText(s) == CentsOfMatch(s, AmountMatch(s, 1))

\* if (!value) return 0; const s = value.replace(/\s+/g, " ").trim();
usdToCents(value) ==
    IF value = <<>> THEN 0 ELSE CentsOfText(Trim(CollapseSpaces(value)))

\* a conversion that writes the cents without their leading zero
centsToUSDUnpadded(cents) == String(cents \div 100) \o <<".">> \o String(cents % 100)

\* (cents / 100).toFixed(2) for an integer number of cents >= 0. The quotient
\* is a double; below 100 * 2^46 cents it lies within half a cent of
\* cents / 100, and toFixed(2) then prints exactly the cents it was given.
centsToUSD(cents) ==
    String(cents \div 100) \o <<".">>
        \o <<DigitChar((cents % 100) \div 10), DigitChar(cents % 10)>>

(***************************************************************************)
(* Article name and quantity (listing-page versions)                       *)
(***************************************************************************)
ArticleNamePlaceholder(v) ==
    IF v = 1 THEN <<"a","r","t","i","c","l","e","_","n","a","m","e","_","s",
                "e","l","e","c","t","o","r"," ","e","r","r","o","r">>
    ELSE <<"E","R","R","O","R",":"," ","s","e","l","e","c","t","o",
                "r","_","a","r","t","i","c","l","e","_","n","a","m","e",
                " ","n","o","t"," ","f","o","u","n","d">>

NameSliceLen == 80

\* articleName ? articleName.slice(0, 80).replace(/;/g, ",") : placeholder
ArticleName(v, raw) ==
    IF raw = <<>> THEN ArticleNamePlaceholder(v)
    ELSE ReplaceSemicolons(Slice0(raw, NameSliceLen))

\* the second \s+ of the quantity pattern, from k to before e
QuantityEnd(d, k, e) == IF e > k THEN <<d, e - 1>> ELSE <<>>

\* \s+(of|x)\s+ after d digits, w the first character that is no white space
QuantityWord(name, d, w) ==
    IF w = d + 1 THEN <<>>
    ELSE IF w + 1 <= Len(name) /\ Lower(name[w]) = "o" /\ Lower(name[w + 1]) = "f"
    THEN QuantityEnd(d, w + 2, SkipSpaces(name, w + 2))
    ELSE IF w <= Len(name) /\ Lower(name[w]) = "x"
    THEN QuantityEnd(d, w + 1, SkipSpaces(name, w + 1))
    ELSE <<>>

\* ^(\d+) took d digits
QuantityDigits(name, d) ==
    IF d = 0 THEN <<>> ELSE QuantityWord(name, d, SkipSpaces(name, d + 1))

\* /^(\d+)\s+(of|x)\s+/i: <<digits, last>>, the number of digits of group 1
\* and the index of the last character matched; <<>> when there is no match.
\* The three classes (digit, white space, letter) are disjoint, so every
\* greedy run is the only one that can match.
QuantityMatch(name) == QuantityDigits(name, DigitRun(name, 1))

\* a quantity detection that keeps a count of 0
QuantityFromNoDefault(name, mCount) ==
    IF mCount = <<>> THEN [count |-> 1, name |-> name]
    ELSE [count |-> DigitsValue(SubSeq(name, 1, mCount[1])),
          name |-> SubSeq(name, mCount[2] + 1, Len(name))]

\* if (mCount) { articleCount = parseInt(mCount[1], 10) || 1;
\*               articleName = articleName.replace(/^(\d+)\s+(of|x)\s+/i, ""); }
QuantityFrom(name, mCount) ==
    IF mCount = <<>> THEN [count |-> 1, name |-> name]
    ELSE [count |-> OrElse(parseInt(SubSeq(name, 1, mCount[1])), 1),
          name |-> SubSeq(name, mCount[2] + 1, Len(name))]

\* let articleCount = 1; const mCount = articleName.match(...);
QuantityOf(name) == QuantityFrom(name, QuantityMatch(name))

(***************************************************************************)
(* The CSV file                                                            *)
(***************************************************************************)
\* s.replace(/"/g, '""'), one half of the text after the other
RECURSIVE EscapeQuotes(_)
EscapeQuotes(s) ==
    IF s = <<>> THEN <<>>
    ELSE IF Len(s) = 1 THEN (IF s[1] = "\"" THEN <<"\"", "\"">> ELSE s)
    ELSE EscapeQuotes(SubSeq(s, 1, Len(s) \div 2))
           \o EscapeQuotes(SubSeq(s, Len(s) \div 2 + 1, Len(s)))

RECURSIVE JoinFields(_, _)
JoinFields(fields, sep) ==
    IF fields = <<>> THEN <<>>
    ELSE IF Len(fields) = 1 THEN fields[1]
    ELSE fields[1] \o sep \o JoinFields(Tail(fields), sep)

\* a row writer that does not double the quotes of a field
csvRowUnescaped(rowData) ==
    JoinFields([i \in 1 .. Len(rowData) |-> <<"\"">> \o rowData[i] \o <<"\"">>], <<";">>)
        \o <<"\n">>

\* rowData.map((s) => `"${String(s).replace(/"/g, '""')}"`).join(";") + "\n"
csvRow(rowData) ==
    JoinFields([i \in 1 .. Len(rowData) |->
                   <<"\"">> \o EscapeQuotes(rowData[i]) \o <<"\"">>], <<";">>)
        \o <<"\n">>

\* the literal that main writes as the first line of the file
CSVHeader ==
    <<"\"","D","a","t","e","\"",";","\"","S","h","i","p","m","e",
                "n","t"," ","S","t","a","t","u","s","\"",";","\"","A","r",
                "t","i","c","l","e"," ","C","o","u","n","t","\"",";","\"",
                "A","r","t","i","c","l","e"," ","N","a","m","e","\"",";",
                "\"","S","i","n","g","l","e"," ","P","r","i","c","e","\"",
                ";","\"","T","o","t","a","l"," ","P","r","i","c","e","\"",
                ";","\"","T","a","g","s","\"","\n">>

(***************************************************************************)
(* Elements of the page. A node is what el.$(selector) finds: found "no"   *)
(* is null, "throws" is a query or an evaluate that throws, and text is    *)
(* the node's textContent.                                                 *)
(***************************************************************************)
Node(t) == [found |-> "yes", text |-> t]

NoNode == [found |-> "no", text |-> <<>>]

BadNode == [found |-> "throws", text |-> <<>>]

\* textOrEmpty(el, selector) on the node the selector finds
textOrEmpty(node) == IF node.found = "yes" THEN Trim(node.text) ELSE <<>>

\* returnedRegex = /(Return|Returned|Refund|Refunded|Replacement)/i
returnedWords ==
    { <<"r","e","t","u","r","n">>, <<"r","e","t","u","r","n","e","d">>, <<"r","e","f","u","n","d">>, <<"r","e","f","u","n","d","e","d">>, <<"r","e","p","l","a","c","e","m","e","n","t">> }

\* the pattern without its /i flag
returnedRegexTestCaseSensitive(s) ==
    \E w \in { <<"R","e","t","u","r","n">>, <<"R","e","t","u","r","n","e","d">>, <<"R","e","f","u","n","d">>, <<"R","e","f","u","n","d","e","d">>, <<"R","e","p","l","a","c","e","m","e","n","t">> } :
        Includes(s, w)

returnedRegexTest(s) == \E w \in returnedWords : Includes(ToLower(s), w)

(***************************************************************************)
(* Listing-page versions (1 and 2): one order element of the listing       *)
(***************************************************************************)
OrderDatePlaceholder(v) ==
    IF v = 1 THEN <<"o","r","d","e","r","_","d","a","t","e","_","s","e","l",
                "e","c","t","o","r"," ","e","r","r","o","r">>
    ELSE IF v = 2 THEN <<"E","R","R","O","R",":"," ","s","e","l","e","c","t","o",
                "r","_","o","r","d","e","r","_","d","a","t","e"," ","n",
                "o","t"," ","f","o","u","n","d">>
    ELSE <<"E","R","R","O","R",":"," ","o","r","d","e","r"," ","d",
                "a","t","e"," ","n","o","t"," ","f","o","u","n","d">>

\* the row of one item and its line total
ItemRow(orderDate, shipmentStatus, shipmentIsReturn, q, singleCents) ==
    [lineCents |-> singleCents * q.count,
     rowData |-> << orderDate, shipmentStatus, String(q.count), q.name,
                    centsToUSD(singleCents),
                    centsToUSD(IF shipmentIsReturn THEN 0 ELSE singleCents * q.count),
                    <<>> >>]

\* the body of the item loop: the name, the quantity and the price of an item
ItemLine(v, itemEl, orderDate, shipmentStatus, shipmentIsReturn) ==
    ItemRow(orderDate, shipmentStatus, shipmentIsReturn,
            QuantityOf(ArticleName(v, textOrEmpty(itemEl.name))),
            usdToCents(textOrEmpty(itemEl.price)))

\* shipmentTotal += lineCents;
\* if (!shipmentIsReturn) shipmentTotalAfterReturns += lineCents; then the row
AddLine(acc, line, shipmentIsReturn) ==
    [rows |-> Append(acc.rows, line.rowData),
     shipmentTotal |-> acc.shipmentTotal + line.lineCents,
     shipmentTotalAfterReturns |->
         acc.shipmentTotalAfterReturns + (IF shipmentIsReturn THEN 0 ELSE line.lineCents)]

\* for (const itemEl of itemEls) from the k-th item on
RECURSIVE ShipmentItems(_, _, _, _, _, _, _)
ShipmentItems(v, itemEls, k, orderDate, shipmentStatus, shipmentIsReturn, acc) ==
    IF k > Len(itemEls) THEN acc
    ELSE ShipmentItems(v, itemEls, k + 1, orderDate, shipmentStatus, shipmentIsReturn,
             AddLine(acc,
                     ItemLine(v, itemEls[k], orderDate, shipmentStatus, shipmentIsReturn),
                     shipmentIsReturn))

\* const shipmentIsReturn = returnedRegex.test(shipmentStatus); then the items
ShipmentWithStatus(v, shipEl, orderDate, shipmentStatus) ==
    ShipmentItems(v, shipEl.items, 1, orderDate, shipmentStatus,
        returnedRegexTest(shipmentStatus),
        [rows |-> <<>>, shipmentTotal |-> 0, shipmentTotalAfterReturns |-> 0])

\* {rows written, shipmentTotal, shipmentTotalAfterReturns} of one shipment
processShipment(v, shipEl, orderDate) ==
    ShipmentWithStatus(v, shipEl, orderDate, Trim(FirstLine(textOrEmpty(shipEl.status))))

\* orderArticlePricesTotal += shipmentTotal;
\* orderTotalPaidAfterReturns += shipmentTotalAfterReturns;
AddShipment(acc, sh) ==
    [rows |-> acc.rows \o sh.rows,
     orderArticlePricesTotal |-> acc.orderArticlePricesTotal + sh.shipmentTotal,
     orderTotalPaidAfterReturns |->
         acc.orderTotalPaidAfterReturns + sh.shipmentTotalAfterReturns]

\* for (const shipEl of shipmentEls) from the k-th shipment on
RECURSIVE OrderShipments(_, _, _, _, _)
OrderShipments(v, shipmentEls, k, orderDate, acc) ==
    IF k > Len(shipmentEls) THEN acc
    ELSE OrderShipments(v, shipmentEls, k + 1, orderDate,
             AddShipment(acc, processShipment(v, shipmentEls[k], orderDate)))

\* a shipping cost that is not raised to 0
shippingCostUnclamped(orderPriceCents, orderArticlePricesTotal) ==
    orderPriceCents - orderArticlePricesTotal

\* let shipmentCostCents = orderPriceCents - orderArticlePricesTotal;
\* if (shipmentCostCents < 0) shipmentCostCents = 0;
shippingCost(orderPriceCents, orderArticlePricesTotal) ==
    IF orderPriceCents - orderArticlePricesTotal < 0 THEN 0
    ELSE orderPriceCents - orderArticlePricesTotal

shipRowData(orderDate, shipmentCostCents) ==
    << orderDate, <<>>, <<"1">>, <<"s","h","i","p","m","e","n","t">>,
       centsToUSD(shipmentCostCents), centsToUSD(shipmentCostCents), <<>> >>

\* if (shipmentCostCents > 0) the shipment row is written; the order returns
\* orderTotalPaidAfterReturns + shipmentCostCents
OrderWithShipping(orderDate, sh, shipmentCostCents) ==
    [rows |-> sh.rows \o (IF shipmentCostCents > 0
                          THEN <<shipRowData(orderDate, shipmentCostCents)>>
                          ELSE <<>>),
     orderTotal |-> sh.orderTotalPaidAfterReturns + shipmentCostCents,
     warnings |-> <<>>]

\* calculateAndWriteShippingCosts after the shipments of the order
OrderAfterShipments(orderDate, orderPriceCents, sh) ==
    OrderWithShipping(orderDate, sh,
                      shippingCost(orderPriceCents, sh.orderArticlePricesTotal))

\* the order price and the shipments of an order whose date is known
OrderWithDate(v, orderEl, orderDate) ==
    OrderAfterShipments(orderDate, usdToCents(textOrEmpty(orderEl.price)),
        OrderShipments(v, orderEl.shipments, 1, orderDate,
            [rows |-> <<>>, orderArticlePricesTotal |-> 0,
             orderTotalPaidAfterReturns |-> 0]))

\* (await textOrEmpty(orderEl, ORDER_DATE)) || placeholder
DateOrPlaceholder(v, dateText) ==
    IF dateText = <<>> THEN OrderDatePlaceholder(v) ELSE dateText

\* processOrder of version 2 and the body of the order loop of version 1:
\* the rows appended to the file, the amount added to the total, the warnings
processOrderListing(v, orderEl) ==
    OrderWithDate(v, orderEl, DateOrPlaceholder(v, textOrEmpty(orderEl.date)))

(***************************************************************************)
(* Details-page version (3): the details page of one order                 *)
(***************************************************************************)
RECURSIVE WordRun(_, _)
WordRun(s, i) ==
    IF i <= Len(s) /\ IsWordChar(s[i]) THEN 1 + WordRun(s, i + 1) ELSE 0

\* \s+\d{4} after the comma: a is the character after the comma, q the first
\* character from a on that is no white space
DateYear(s, a, q) == IF q > a /\ DigitRun(s, q) >= 4 THEN q + 3 ELSE 0

\* \d+, from p, c the character after the digits
DateComma(s, p, c) ==
    IF c > p /\ c <= Len(s) /\ s[c] = "," THEN DateYear(s, c + 1, SkipSpaces(s, c + 1))
    ELSE 0

\* \s+ after the word: a is the character after the word, p the first
\* character from a on that is no white space
DateDay(s, a, p) == IF p > a THEN DateComma(s, p, p + DigitRun(s, p)) ELSE 0

\* \w+ took w characters from i
DateWord(s, i, w) == IF w >= 1 THEN DateDay(s, i + w, SkipSpaces(s, i + w)) ELSE 0

\* /(\w+\s+\d+,\s+\d{4})/ anchored at i: the index of the last character
\* matched, 0 when there is no match at i. A word run may hold digits and must
\* end at white space, so giving characters back never helps.
DateAt(s, i) == DateWord(s, i, WordRun(s, i))

\* fullText.match(...): the text of the leftmost match, <<>> when there is none
RECURSIVE DateMatch(_, _)
RECURSIVE DateOrNext(_, _, _)
DateOrNext(s, i, e) == IF e # 0 THEN SubSeq(s, i, e) ELSE DateMatch(s, i + 1)

DateMatch(s, i) == IF i > Len(s) THEN <<>> ELSE DateOrNext(s, i, DateAt(s, i))

\* the fallback loop over the .a-row elements: the date of the first row that
\* says "order placed" and holds a date
RECURSIVE OrderPlacedDate(_, _)
RECURSIVE PlacedOrNext(_, _, _)
PlacedOrNext(rows, k, dateMatch) ==
    IF dateMatch # <<>> THEN dateMatch ELSE OrderPlacedDate(rows, k + 1)

OrderPlacedDate(rows, k) ==
    IF k > Len(rows) THEN <<>>
    ELSE PlacedOrNext(rows, k,
             IF Includes(ToLower(rows[k]), <<"o","r","d","e","r"," ","p","l","a","c","e","d">>)
             THEN DateMatch(rows[k], 1) ELSE <<>>)

\* one summary row: the label decides which value it sets
FinancialRow(financial, rowText, valueEl) ==
    IF valueEl.found # "yes" THEN financial
    ELSE IF Includes(rowText, <<"s","u","b","t","o","t","a","l">>)
    THEN [financial EXCEPT !.subtotal = Trim(valueEl.text)]
    ELSE IF Includes(rowText, <<"e","s","t","i","m","a","t","e","d"," ","t","a","x">>)
    THEN [financial EXCEPT !.tax = Trim(valueEl.text)]
    ELSE IF Includes(rowText, <<"s","h","i","p","p","i","n","g">>) /\ Includes(rowText, <<"h","a","n","d","l","i","n","g">>)
    THEN [financial EXCEPT !.shipping = Trim(valueEl.text)]
    ELSE IF Includes(rowText, <<"g","r","a","n","d"," ","t","o","t","a","l">>) \/ Includes(rowText, <<"o","r","d","e","r"," ","t","o","t","a","l">>)
    THEN [financial EXCEPT !.grandTotal = Trim(valueEl.text)]
    ELSE financial

\* the loop over the summary rows: the last value of each label
RECURSIVE Financial(_, _, _)
Financial(summaryRows, k, financial) ==
    IF k > Len(summaryRows) THEN financial
    ELSE Financial(summaryRows, k + 1,
             FinancialRow(financial, ToLower(summaryRows[k].text), summaryRows[k].value))

\* if (qtyNum > 0) qty = qtyNum;
QtyOrOne(qtyNum) == IF qtyNum # <<>> /\ qtyNum[1] > 0 THEN qtyNum[1] ELSE 1

\* the quantity of one item: 1 unless .od-item-view-qty holds a number > 0
ItemQty(qtyEl) ==
    IF qtyEl.found = "yes" THEN QtyOrOne(parseInt(Trim(qtyEl.text))) ELSE 1

\* items.push({ name, qty, priceText, status: shipmentStatus })
DetailItem(itemContainer, name, shipmentStatus) ==
    [name |-> name,
     qty |-> ItemQty(itemContainer.qty),
     priceText |-> textOrEmpty(itemContainer.price),
     status |-> shipmentStatus]

\* an item that is kept whatever its name
PushedItemKeepNameless(itemContainer, name, shipmentStatus) ==
    <<DetailItem(itemContainer, name, shipmentStatus)>>

\* if (!name) continue; items.push(...)
PushedItem(itemContainer, name, shipmentStatus) ==
    IF name = <<>> THEN <<>> ELSE <<DetailItem(itemContainer, name, shipmentStatus)>>

\* the loop over the items of one shipment
RECURSIVE DetailItems(_, _, _)
DetailItems(itemContainers, k, shipmentStatus) ==
    IF k > Len(itemContainers) THEN <<>>
    ELSE PushedItem(itemContainers[k], textOrEmpty(itemContainers[k].name), shipmentStatus)
           \o DetailItems(itemContainers, k + 1, shipmentStatus)

\* let shipmentStatus = "Delivered"; if (statusText) shipmentStatus = statusText;
StatusOrDelivered(statusText) == IF statusText = <<>> THEN <<"D","e","l","i","v","e","r","e","d">> ELSE statusText

\* the loop over the shipment containers
RECURSIVE DetailShipments(_, _)
DetailShipments(shipmentContainers, k) ==
    IF k > Len(shipmentContainers) THEN <<>>
    ELSE DetailItems(shipmentContainers[k].items, 1,
                     StatusOrDelivered(textOrEmpty(shipmentContainers[k].status)))
           \o DetailShipments(shipmentContainers, k + 1)

\* the record getOrderDetails returns
DetailsRecord(orderEl, dateText, financial) ==
    [orderDate |-> IF dateText # <<>> THEN dateText
                   ELSE OrderPlacedDate(orderEl.placedRows, 1),
     subtotal |-> financial.subtotal,
     tax |-> financial.tax,
     shipping |-> financial.shipping,
     grandTotal |-> financial.grandTotal,
     items |-> DetailShipments(orderEl.shipments, 1)]

\* getOrderDetails: <<>> is null, <<details>> the record it returns. The page
\* does not load when the goto, the wait for the page or a query throws.
getOrderDetails(orderEl) ==
    IF ~orderEl.href \/ ~orderEl.loads THEN <<>>
    ELSE << DetailsRecord(orderEl, textOrEmpty(orderEl.detailsDate),
                Financial(orderEl.summaryRows, 1,
                    [subtotal |-> <<>>, tax |-> <<>>,
                     shipping |-> <<>>, grandTotal |-> <<>>])) >>

\* a row that counts every status that begins with "Delivered"
DetailRowDeliveredPrefix(orderDate, item, singleCents) ==
    << orderDate, item.status, String(item.qty),
       ReplaceSemicolons(Slice0(item.name, NameSliceLen)),
       centsToUSD(singleCents),
       centsToUSD(IF Slice0(item.status, 9) = <<"D","e","l","i","v","e","r","e","d">>
                  THEN singleCents * item.qty ELSE 0),
       <<>> >>

\* the row of one item of the details page
DetailRow(orderDate, item, singleCents) ==
    << orderDate, item.status, String(item.qty),
       ReplaceSemicolons(Slice0(item.name, NameSliceLen)),
       centsToUSD(singleCents),
       centsToUSD(IF item.status = <<"D","e","l","i","v","e","r","e","d">> THEN singleCents * item.qty ELSE 0),
       <<>> >>

\* for (const item of details.items) from the k-th item on
RECURSIVE DetailRows(_, _, _)
DetailRows(items, k, orderDate) ==
    IF k > Len(items) THEN <<>>
    ELSE <<DetailRow(orderDate, items[k], usdToCents(items[k].priceText))>>
           \o DetailRows(items, k + 1, orderDate)

\* the rows and the value returned once the three amounts are known
DetailsOrder3(details, orderDate, subtotalCents, shippingCents) ==
    [rows |-> DetailRows(details.items, 1, orderDate)
                \o (IF shippingCents > 0
                    THEN <<shipRowData(orderDate, shippingCents)>>
                    ELSE <<>>),
     orderTotal |-> subtotalCents + shippingCents,
     warnings |-> <<>>]

\* an order without details that is skipped without a word
SkippedOrderSilent(warnings) == [rows |-> <<>>, orderTotal |-> 0, warnings |-> <<>>]

\* console.warn(...); return 0;
SkippedOrder(warnings) == [rows |-> <<>>, orderTotal |-> 0, warnings |-> warnings]

\* processOrder of version 3 after getOrderDetails returned
OrderOfDetails(got) ==
    IF got = <<>>
    THEN SkippedOrder(<<"failed to get order details", "failed to get details data">>)
    ELSE DetailsOrder3(got[1], DateOrPlaceholder(3, got[1].orderDate),
                       usdToCents(got[1].subtotal), usdToCents(got[1].shipping))

\* processOrder of version 3
processOrderDetails(orderEl) ==
    IF ~orderEl.href THEN SkippedOrder(<<"no details link">>)
    ELSE OrderOfDetails(getOrderDetails(orderEl))

\* processOrder of the version at hand
processOrder(v, orderEl) ==
    IF v = 3 THEN processOrderDetails(orderEl) ELSE processOrderListing(v, orderEl)

(***************************************************************************)
(* What the site shows: order elements built from fixed lists of shipments *)
(***************************************************************************)
MaxShipments == 2

MaxItems == 2

LongName == [i \in 1 .. NameSliceLen + 3 |-> IF i = 2 THEN ";" ELSE "n"]

Item(name, price, qty) == [name |-> name, price |-> price, qty |-> qty]

\* the shipments of the listing page (versions 1 and 2)
ListingShipments ==
    << [status |-> Node(<<" ","D","e","l","i","v","e","r","e","d"," ","M","a","y",
                " ","3","\n"," "," ","Y","o","u","r"," ","p","a","c","k",
                "a","g","e"," ","w","a","s"," ","l","e","f","t"," ","n",
                "e","a","r"," ","t","h","e"," ","d","o","o","r"," ">>),
        items |-> << Item(Node(<<" ","W","i","d","g","e","t"," ">>), Node(<<"$","5",".","0","0">>), NoNode),
                     Item(Node(<<"2"," ","x"," ","G","a","d","g","e","t",";"," ","\"","X",
                "L","\"">>), Node(<<" ","$","1",",","2","3","4",".","5","6"," ">>), NoNode),
                     Item(NoNode, Node(<<"$","1",".","5","0">>), NoNode) >>],
       [status |-> Node(<<"R","e","t","u","r","n"," ","c","o","m","p","l","e","t",
                "e">>),
        items |-> << Item(Node(<<"3"," ","o","f"," ","B","o","l","t">>), Node(<<"$","0",".","9","9">>), NoNode),
                     Item(Node(<<"N","u","t">>), NoNode, NoNode),
                     Item(Node(<<"0"," ","x"," ","S","a","m","p","l","e">>), Node(<<"F","R","E","E">>), NoNode) >>],
       [status |-> NoNode,
        items |-> << Item(Node(<<"C","a","b","l","e">>), Node(<<"$","1","0",".","0","0">>), NoNode),
                     Item(Node(LongName), Node(<<"1","2",".","0","0">>), NoNode),
                     Item(BadNode, Node(<<"$","2",".","0","0">>), NoNode) >>],
       [status |-> Node(<<"Y","o","u","r"," ","R","E","F","U","N","D"," ","\"","w",
                "a","s","\""," ","i","s","s","u","e","d">>),
        items |-> << Item(Node(<<"L","a","m","p">>), Node(<<"$","2","0",".","0","0">>), NoNode),
                     Item(Node(<<"2"," ","O","F"," ","B","u","l","b">>), BadNode, NoNode),
                     Item(Node(<<>>), Node(<<"$","3",".","0","0">>), NoNode) >>] >>

\* the shipments of the details page (version 3)
DetailsShipments ==
    << [status |-> Node(<<" ","D","e","l","i","v","e","r","e","d"," ">>),
        items |-> << Item(Node(<<" ","W","i","d","g","e","t"," ">>), Node(<<"$","5",".","0","0">>), Node(<<"2">>)),
                     Item(Node(<<"G","a","d","g","e","t",";"," ","\"","X","L","\"">>), Node(<<"$","1",",","2","3","4",".","5","6">>), NoNode),
                     Item(NoNode, Node(<<"$","1",".","5","0">>), Node(<<"1">>)) >>],
       [status |-> Node(<<"R","e","t","u","r","n"," ","c","o","m","p","l","e","t",
                "e">>),
        items |-> << Item(Node(<<"B","o","l","t">>), Node(<<"$","0",".","9","9">>), Node(<<"3">>)),
                     Item(Node(<<"N","u","t">>), NoNode, Node(<<"0">>)),
                     Item(Node(<<>>), Node(<<"$","3",".","0","0">>), NoNode) >>],
       [status |-> NoNode,
        items |-> << Item(Node(<<"C","a","b","l","e">>), Node(<<"$","1","0",".","0","0">>), Node(<<"Q","t","y",":"," ","2">>)),
                     Item(Node(LongName), Node(<<"1","2",".","0","0">>), Node(<<"-","2">>)),
                     Item(Node(<<"L","a","m","p">>), Node(<<"F","R","E","E">>), NoNode) >>],
       [status |-> Node(<<>>),
        items |-> << Item(Node(<<"B","u","l","b">>), Node(<<"$","2",".","0","0">>), Node(<<" ","4"," ">>)),
                     Item(NoNode, NoNode, NoNode),
                     Item(Node(<<"P","l","u","g">>), Node(<<"$","3",".","0","0">>), NoNode) >>],
       [status |-> Node(<<"D","e","l","i","v","e","r","e","d"," ","M","a","y"," ",
                "3">>),
        items |-> << Item(Node(<<"D","e","s","k">>), Node(<<"$","4","0",".","0","0">>), Node(<<"1">>)),
                     Item(Node(<<"C","h","a","i","r">>), Node(<<"$","1","5",".","0","0">>), NoNode),
                     Item(Node(<<"M","a","t">>), Node(<<"$","9",".","9","9">>), Node(<<"2">>)) >>] >>

\* n shipments from the a-th on, each with its m items after the first o
Window(list, a, n, o, m) ==
    [k \in 1 .. n |-> [status |-> list[a + k - 1].status,
                       items |-> SubSeq(list[a + k - 1].items, o + 1, o + m)]]

Windows(list) ==
    { Window(list, w[1], w[2], w[3], w[4]) :
        w \in { x \in (1 .. Len(list)) \X (0 .. MaxShipments) \X (0 .. 2) \X (0 .. MaxItems) :
                  /\ x[1] + x[2] - 1 <= Len(list)
                  /\ x[3] + x[4] <= 3 } }

ListingOrder(date, price, shipments) ==
    [date |-> date, price |-> price, shipments |-> shipments,
     href |-> FALSE, loads |-> FALSE, detailsDate |-> NoNode,
     placedRows |-> <<>>, summaryRows |-> <<>>]

DetailsOrder(href, loads, detailsDate, placedRows, summaryRows, shipments) ==
    [date |-> NoNode, price |-> NoNode, shipments |-> shipments,
     href |-> href, loads |-> loads, detailsDate |-> detailsDate,
     placedRows |-> placedRows, summaryRows |-> summaryRows]

OrderDates == { Node(<<" ","M","a","y"," ","1",","," ","2","0","2","4"," ">>), NoNode, Node(<<"t","h","e"," ","\"","1","s","t","\"",";"," ","M","a","y">>) }

OrderPrices ==
    { Node(<<"$","7",".","4","9">>), Node(<<" ","T","o","t","a","l"," ","$","1",",","2","5","0",".",
                "0","0"," ">>), Node(<<"$","0",".","5","0">>), NoNode, Node(<<"$","2","6">>) }

\* every order element the order-level checks are run on (versions 1 and 2)
ListingOrders ==
    { ListingOrder(d, p, sh) : d \in OrderDates, p \in OrderPrices, sh \in Windows(ListingShipments) }

PlacedRows ==
    { <<>>,
      << <<"S","h","i","p"," ","t","o">>, <<"O","r","d","e","r"," ","P","l","a","c","e","d"," "," ",
                "M","a","y"," ","1",","," ","2","0","2","4"," ","|"," ",
                "O","r","d","e","r"," ","#"," ","1","1","1">> >>,
      << <<"o","r","d","e","r"," ","p","l","a","c","e","d"," ","s",
                "o","o","n">>, <<"O","R","D","E","R"," ","P","L","A","C","E","D",":"," ",
                "o","n"," ","J","u","n","e"," ","1","2",",","\n","2","0",
                "2","3">> >> }

SummaryRow(text, value) == [text |-> text, value |-> value]

Summaries ==
    { <<>>,
      << SummaryRow(<<"I","t","e","m","(","s",")"," ","S","u","b","t","o","t",
                "a","l",":"," ","$","1","0",".","0","0">>, Node(<<" ","$","1","0",".","0","0"," ">>)),
         SummaryRow(<<"S","h","i","p","p","i","n","g"," ","&"," ","H","a","n",
                "d","l","i","n","g",":"," ","$","4",".","9","9">>, Node(<<"$","4",".","9","9">>)),
         SummaryRow(<<"E","s","t","i","m","a","t","e","d"," ","t","a","x"," ",
                "t","o"," ","b","e"," ","c","o","l","l","e","c","t","e",
                "d",":"," ","$","0",".","8","0">>, Node(<<"$","0",".","8","0">>)),
         SummaryRow(<<"G","r","a","n","d"," ","T","o","t","a","l",":"," ","$",
                "1","5",".","7","9">>, Node(<<"$","1","5",".","7","9">>)) >>,
      << SummaryRow(<<"I","t","e","m","(","s",")"," ","S","u","b","t","o","t",
                "a","l",":"," ","$","1",",","2","4","0",".","5","5">>, Node(<<"$","1",",","2","4","0",".","5","5">>)),
         SummaryRow(<<"S","h","i","p","p","i","n","g"," ","&"," ","H","a","n",
                "d","l","i","n","g",":">>, NoNode),
         SummaryRow(<<"F","r","e","e"," ","S","h","i","p","p","i","n","g"," ",
                "&"," ","H","a","n","d","l","i","n","g",":"," ","-","$",
                "4",".","9","9">>, Node(<<"-","$","4",".","9","9">>)),
         SummaryRow(<<"O","r","d","e","r"," ","T","o","t","a","l",":"," ","$",
                "1",",","2","4","0",".","5","5">>, Node(<<"$","1",",","2","4","0",".","5","5">>)) >>,
      << SummaryRow(<<"S","u","b","t","o","t","a","l">>, Node(<<"$","2",".","9","7">>)),
         SummaryRow(<<"S","h","i","p","p","i","n","g"," ","&"," ","H","a","n",
                "d","l","i","n","g">>, Node(<<"$","0",".","0","0">>)) >> }

\* every order element the order-level checks are run on (version 3)
DetailsOrders ==
    { DetailsOrder(l[1], l[2], d, pr, sm, sh) :
        l \in { <<TRUE, TRUE>>, <<TRUE, FALSE>>, <<FALSE, FALSE>> },
        d \in { Node(<<" ","M","a","y"," ","1",","," ","2","0","2","4"," ">>), NoNode },
        pr \in PlacedRows, sm \in Summaries, sh \in Windows(DetailsShipments) }

\* the orders of a year as the listing shows them, one after the other and
\* over again: what the run-level checks are run on
ListingCatalog ==
    << ListingOrder(Node(<<" ","M","a","y"," ","1",","," ","2","0","2","4"," ">>), Node(<<"$","7",".","4","9">>),
                    Window(ListingShipments, 1, 1, 0, 1)),
       ListingOrder(NoNode, Node(<<"$","3",".","0","0">>), Window(ListingShipments, 2, 1, 0, 1)),
       ListingOrder(Node(<<"J","u","n","e"," ","2",","," ","2","0","2","4">>), NoNode, <<>>) >>

DetailsCatalog ==
    << DetailsOrder(TRUE, TRUE, Node(<<" ","M","a","y"," ","1",","," ","2","0","2","4"," ">>), <<>>,
                    << SummaryRow(<<"I","t","e","m","(","s",")"," ","S","u","b","t","o","t",
                "a","l",":"," ","$","1","0",".","0","0">>, Node(<<" ","$","1","0",".","0","0"," ">>)),
                       SummaryRow(<<"S","h","i","p","p","i","n","g"," ","&"," ","H","a","n",
                "d","l","i","n","g",":"," ","$","4",".","9","9">>, Node(<<"$","4",".","9","9">>)),
                       SummaryRow(<<"E","s","t","i","m","a","t","e","d"," ","t","a","x"," ",
                "t","o"," ","b","e"," ","c","o","l","l","e","c","t","e",
                "d",":"," ","$","0",".","8","0">>, Node(<<"$","0",".","8","0">>)) >>,
                    Window(DetailsShipments, 1, 1, 0, 1)),
       DetailsOrder(FALSE, FALSE, NoNode, <<>>, <<>>, <<>>),
       DetailsOrder(TRUE, FALSE, NoNode, <<>>, <<>>, <<>>),
       DetailsOrder(TRUE, TRUE, NoNode,
                    << <<"O","r","d","e","r"," ","p","l","a","c","e","d"," ","J",
                "u","n","e"," ","2",","," ","2","0","2","4">> >>,
                    << SummaryRow(<<"S","u","b","t","o","t","a","l">>, Node(<<"$","2",".","9","7">>)) >>,
                    Window(DetailsShipments, 2, 1, 0, 1)) >>

Catalog(v) == IF v = 3 THEN DetailsCatalog ELSE ListingCatalog

PageSize == 10

\* the order elements of the listing at startIndex when the year has n orders
SitePage(v, n, startIndex) ==
    LET inPage == IF n - startIndex < 0 THEN 0
                  ELSE IF n - startIndex > PageSize THEN PageSize ELSE n - startIndex
    IN [k \in 1 .. inPage |-> Catalog(v)[((startIndex + k - 1) % Len(Catalog(v))) + 1]]

(***************************************************************************)
(* The years of a run                                                      *)
(***************************************************************************)
FirstYear == 2000

RECURSIVE YearsDownTo(_, _)
YearsDownTo(y, last) ==
    IF y >= last THEN <<String(y)>> \o YearsDownTo(y - 1, last) ELSE <<>>

\* a loop that stops one year early: for (let y = current; y > 2000; y--)
getYearsFromArgExclusive(args, current) ==
    IF args # <<>> /\ args[1] # <<>> THEN <<args[1]>>
    ELSE YearsDownTo(current, FirstYear + 1)

\* if (process.argv[2]) return [process.argv[2]];
\* for (let y = current; y >= 2000; y--) years.push(String(y));
getYearsFromArg(args, current) ==
    IF args # <<>> /\ args[1] # <<>> THEN <<args[1]>>
    ELSE YearsDownTo(current, FirstYear)

\* the pages a tab may show: about:blank, BASE_URL, ORDERS_URL and the listing
\* of a year from a start index on
Page(site) == <<site, <<>>, 0>>

ListPage(url) == <<"list", url[1], url[2]>>

(***************************************************************************)
(* The text layer: a helper applied to one argument                        *)
(***************************************************************************)
MaxDollars == 12

MaxNameLen == 4

MaxCents == 1500

MaxTextLen == 5

RECURSIVE SeqsUpTo(_, _)
SeqsUpTo(S, n) ==
    IF n = 0 THEN {<<>>}
    ELSE LET shorter == SeqsUpTo(S, n - 1)
         IN shorter \cup {Append(s, c) : s \in {t \in shorter : Len(t) = n - 1}, c \in S}

\* an amount as the site prints it: the integer part with thousands commas
RECURSIVE WithCommas(_)
WithCommas(n) ==
    IF n < 1000 THEN String(n)
    ELSE WithCommas(n \div 1000)
           \o <<",", DigitChar((n % 1000) \div 100),
                DigitChar((n % 100) \div 10), DigitChar(n % 10)>>

TwoDigits(c) == <<DigitChar(c \div 10), DigitChar(c % 10)>>

DollarValues == (0 .. MaxDollars) \cup {999, 1000, 1234, 20005, 999999, 1000000, 1234567}

CentValues == {0, 5, 10, 56, 99}

\* what may stand before and after the amount: no digit that touches it
AmountPrefixes ==
    { <<>>, <<" ">>, <<"T","o","t","a","l",":"," ">>, <<"2"," ","x"," ">>, <<"\n","\t">> }

AmountSuffixes == { <<>>, <<" ">>, <<" ","e","a","c","h">>, <<"\n">> }

AmountInputs ==
    { [kind |-> "amount",
       text |-> pre \o (IF sign = 0 THEN <<>> ELSE IF sign = 1 THEN <<"$">> ELSE <<"$", " ">>)
                   \o (IF commas THEN WithCommas(d) ELSE String(d))
                   \o <<".">> \o TwoDigits(c) \o post,
       dollars |-> d, cents |-> c] :
        pre \in AmountPrefixes, sign \in 0 .. 2, commas \in BOOLEAN,
        d \in DollarValues, c \in CentValues, post \in AmountSuffixes }

PickedNames ==
    { <<"0"," ","x"," ","W">>, <<"0","0"," ","o","f"," ","W">>,
      <<"2"," ","o","f"," ","W">>, <<"2"," ","O","F"," ","W">>,
      <<"2"," ","O","f"," ","W">>, <<"1","2"," ","X"," ","W">>,
      <<"0","3"," ","x"," ","W">>, <<"2","\n","x","\t"," ","W">>,
      <<"2"," ","o"," ","W">>, <<"2"," ","o","f","W">>,
      <<"2"," ","x"," ","3"," ","x"," ","W">>, <<"2"," ","f","o"," ","W">>,
      <<"W"," ","2"," ","x"," ","W">>, <<"2"," ","x"," ">>,
      ArticleNamePlaceholder(1), ArticleNamePlaceholder(2) }

NameInputs ==
    { [kind |-> "name", text |-> t, dollars |-> 0, cents |-> 0] :
        t \in SeqsUpTo({"2", " ", "x", "W"}, MaxNameLen) \cup PickedNames }

\* numbers of cents: every small one, and picked ones where the text grows
CentsInputs ==
    { [kind |-> "cents", text |-> <<>>, dollars |-> c \div 100, cents |-> c] :
        c \in (0 .. MaxCents)
                 \cup {9999, 10000, 99999, 100000, 123456, 99999999, 100000000,
                       2147483647} }

\* texts of any shape: every short one over the characters an amount is
\* written with, and picked ones
PlainTexts ==
    { [kind |-> "text", text |-> t, dollars |-> 0, cents |-> 0] :
        t \in SeqsUpTo({"$", "5", ".", ",", " "}, MaxTextLen)
                 \cup { <<"F","R","E","E">>, <<"$","5">>, <<"$","5",".","1","2","3">>, <<"-","$","4",".","9","9">>, <<"-","5",".","5","5">>,
                        <<"1",".","5",".","2","5">>, <<"$","1",",","2","3","4",".","5">>, <<"1","2",".","3","4","5",",","6","7">>, <<"5",".","5","O">> } }

NoResult == [op |-> "none", val |-> 0, name |-> <<>>]

NoInput == [kind |-> "none", text |-> <<>>, dollars |-> 0, cents |-> 0]

\* the script has not been started
RunIdle ==
    /\ version = 2
    /\ argv = <<>>
    /\ currentYear = FirstYear
    /\ pc = "idle"
    /\ browser = "none"
    /\ cookieFile = "absent"
    /\ hadCookies = FALSE
    /\ caller = "main"
    /\ elapsed = 0
    /\ timedOut = FALSE
    /\ csv = <<>>
    /\ headerWrites = 0
    /\ years = <<>>
    /\ yi = 0
    /\ started = <<>>
    /\ siteOrders = 0
    /\ runningTotal = 0
    /\ yearTotal = 0
    /\ articleOffset = 0
    /\ pageNumber = 0
    /\ listUrl = <<>>
    /\ orderEls = <<>>
    /\ countInPage = 0
    /\ oi = 0
    /\ console = <<>>
    /\ shown = Page("blank")
    /\ pending = 0

TextInit ==
    /\ inp \in AmountInputs \cup NameInputs \cup CentsInputs \cup PlainTexts
    /\ res = NoResult
    /\ RunIdle

CallUsdToCents ==
    /\ res = NoResult
    /\ res' = [op |-> "usdToCents", val |-> usdToCents(inp.text), name |-> <<>>]
    /\ UNCHANGED <<inp, runVars>>

CallQuantityOf ==
    /\ res = NoResult
    /\ inp.kind = "name"
    /\ \E q \in {QuantityOf(inp.text)} :
          res' = [op |-> "QuantityOf", val |-> q.count, name |-> q.name]
    /\ UNCHANGED <<inp, runVars>>

\* the text centsToUSD writes for a number of cents, read back by usdToCents
CallRoundTrip ==
    /\ res = NoResult
    /\ inp.kind = "cents"
    /\ res' = [op |-> "roundTrip", val |-> usdToCents(centsToUSD(inp.cents)),
               name |-> centsToUSD(inp.cents)]
    /\ UNCHANGED <<inp, runVars>>

TextNext == CallUsdToCents \/ CallQuantityOf \/ CallRoundTrip

SpecText == TextInit /\ [][TextNext]_vars

(***************************************************************************)
(* C1: usdToCents gives 100 * dollars + cents for every text that holds    *)
(* one amount written as an optional "$", an integer part with or without  *)
(* thousands commas, a "." and two digits.                                 *)
(***************************************************************************)
C1_UsdToCentsValue ==
    (inp.kind = "amount" /\ res.op = "usdToCents")
        => res.val = 100 * inp.dollars + inp.cents

\* "$1,234.56" has been parsed to 123456
C1_Witness ==
    /\ inp.text = <<"$","1",",","2","3","4",".","5","6">>
    /\ res.op = "usdToCents"
    /\ res.val = 123456

(***************************************************************************)
(* C2: quantity prefix of an article name                                  *)
(***************************************************************************)
\* name starts with digits, white space, "x" or "of" in any case, white space,
\* and k is the last character of that prefix (the white space taken whole)
IsQtyPrefix(name, d, k) ==
    /\ 1 <= d /\ d < k /\ k <= Len(name)
    /\ \A i \in 1 .. d : IsDigit(name[i])
    /\ \E w \in d + 1 .. k - 2 :
          /\ \A i \in d + 1 .. w : IsSpace(name[i])
          /\ \E e \in w + 1 .. k - 1 :
                /\ <<e - w, [i \in 1 .. e - w |-> Lower(name[w + i])]>>
                       \in {<<1, <<"x">>>>, <<2, <<"o", "f">>>>}
                /\ \A i \in e + 1 .. k : IsSpace(name[i])
    /\ (k < Len(name) => ~IsSpace(name[k + 1]))

QtyPrefixes(name) ==
    { dk \in (1 .. Len(name)) \X (1 .. Len(name)) : IsQtyPrefix(name, dk[1], dk[2]) }

\* C2 as stated: a prefix <n> x / <n> of with n >= 1 gives count n and the name
\* without the prefix; every other name gives count 1 and is left unchanged.
C2_AsStated ==
    (inp.kind = "name" /\ res.op = "QuantityOf") =>
        LET P == { dk \in QtyPrefixes(inp.text) :
                     DigitsValue(SubSeq(inp.text, 1, dk[1])) >= 1 }
        IN IF P # {}
           THEN \A dk \in P :
                   /\ res.val = DigitsValue(SubSeq(inp.text, 1, dk[1]))
                   /\ res.name = SubSeq(inp.text, dk[2] + 1, Len(inp.text))
           ELSE res.val = 1 /\ res.name = inp.text

\* C2 amended: the prefix is removed also when n = 0, and the count is then 1;
\* a name without such a prefix gives count 1 and is left unchanged.
C2_QuantityPrefix ==
    (inp.kind = "name" /\ res.op = "QuantityOf") =>
        LET P == QtyPrefixes(inp.text)
        IN IF P # {}
           THEN \A dk \in P :
                   LET n == DigitsValue(SubSeq(inp.text, 1, dk[1]))
                   IN /\ res.val = (IF n = 0 THEN 1 ELSE n)
                      /\ res.name = SubSeq(inp.text, dk[2] + 1, Len(inp.text))
           ELSE res.val = 1 /\ res.name = inp.text

\* "0 x W" has given count 1 and the name "W"
C2_Witness ==
    /\ inp.text = <<"0"," ","x"," ","W">>
    /\ res.op = "QuantityOf"
    /\ res.val = 1
    /\ res.name = <<"W">>

(***************************************************************************)
(* The run: main and what it calls, one action per awaited step            *)
(***************************************************************************)
MaxYearSpan == 1

MaxOver == 1

WaitTimeoutTicks == 2

MaxCheckTicks == 1

\* what process.argv[2] may hold: a year
ArgYears == { <<"1","9","9","9">>, <<"2","0","2","4">> }

\* how many orders the site may hold for a year: none, a few, a full page,
\* a full page and a few
OrderCounts == {0, MaxOver, PageSize, PageSize + MaxOver}

\* what the CSV file holds before the run: nothing, or an earlier run's rows
StaleRow == csvRow(<< <<"J","a","n"," ","1",","," ","2","0","2","0">>, <<>>, <<"1">>, <<"s","t","a","l","e">>, <<"1",".","0","0">>, <<"1",".","0","0">>, <<>> >>)

OldContents == { <<>>, <<CSVHeader, StaleRow>> }

RunInit ==
    /\ inp = NoInput
    /\ res = NoResult
    /\ version \in 1 .. 3
    /\ \/ argv = <<>> /\ currentYear \in FirstYear .. FirstYear + MaxYearSpan
       \/ argv \in { <<y>> : y \in ArgYears } /\ currentYear = FirstYear + MaxYearSpan
    /\ pc = "start"
    /\ browser = "none"
    /\ cookieFile \in {"absent", "corrupt", "stored"}
    /\ hadCookies = FALSE
    /\ caller = "main"
    /\ elapsed = 0
    /\ timedOut = FALSE
    /\ csv \in OldContents
    /\ headerWrites = 0
    /\ years = <<>>
    /\ yi = 0
    /\ started = <<>>
    /\ siteOrders = 0
    /\ runningTotal = 0
    /\ yearTotal = 0
    /\ articleOffset = 0
    /\ pageNumber = 0
    /\ listUrl = <<>>
    /\ orderEls = <<>>
    /\ countInPage = 0
    /\ oi = 0
    /\ console = <<>>
    /\ shown = Page("blank")
    /\ pending = 0

mainVars == <<version, argv, currentYear>>

waitVars == <<elapsed, timedOut>>

fileVars == <<csv, headerWrites>>

yearVars ==
    <<siteOrders, yearTotal, articleOffset, pageNumber, listUrl, orderEls, countInPage, oi,
      pending>>

\* main up to the first page: the years, the browser, the page, goto(BASE_URL)
Launch ==
    /\ pc = "start"
    /\ years' = getYearsFromArg(argv, currentYear)
    /\ browser' = "open"
    /\ pc' = "loadCookies"
    /\ shown' = Page("base")
    /\ console' = <<>>
    /\ UNCHANGED <<textVars, mainVars, cookieFile, hadCookies, caller, waitVars, fileVars,
                   yi, started, runningTotal, yearVars>>

\* loadCookies: false when the file is absent or cannot be read or parsed, or
\* when page.setCookie rejects a cookie
loadCookies(file, accepted) == file = "stored" /\ accepted

LoadCookies ==
    /\ pc = "loadCookies"
    /\ \E accepted \in BOOLEAN :
          /\ hadCookies' = loadCookies(cookieFile, accepted)
          /\ pc' = IF loadCookies(cookieFile, accepted) THEN "reload" ELSE "ensure"
    /\ caller' = "main"
    /\ console' = <<>>
    /\ UNCHANGED <<textVars, mainVars, browser, cookieFile, waitVars, fileVars, years,
                   yi, started, runningTotal, yearVars, shown>>

\* if (hadCookies) await page.reload(...)
Reload ==
    /\ pc = "reload"
    /\ pc' = "ensure"
    /\ console' = <<>>
    /\ UNCHANGED <<textVars, mainVars, browser, cookieFile, hadCookies, caller, waitVars,
                   fileVars, years, yi, started, runningTotal, yearVars, shown>>

\* ensureSignedInAndOnOrders: page.goto(ORDERS_URL); waitUntil: start = Date.now()
EnsureGoto ==
    /\ pc = "ensure"
    /\ elapsed' = 0
    /\ shown' = Page("orders")
    /\ pc' = "wait"
    /\ console' = <<>>
    /\ UNCHANGED <<textVars, mainVars, browser, cookieFile, hadCookies, caller, timedOut,
                   fileVars, years, yi, started, runningTotal, yearVars>>

\* a condition whose error is not caught
afterCheckUncaught(found) ==
    IF found = "yes" THEN "saveCookies"
    ELSE IF found = "throws" THEN "aborted" ELSE "waitTest"

\* try { if (await checkFn()) return true; } catch {}: waitUntil returns true
\* to ensureSignedInAndOnOrders, or goes on to the time test
afterCheck(found) == IF found = "yes" THEN "saveCookies" ELSE "waitTest"

\* waitUntil: try { if (await checkFn()) return true; } catch {}
\* checkFn finds the orders container, finds none, or throws; it takes dt.
WaitCheck ==
    /\ pc = "wait"
    /\ \E found \in {"yes", "no", "throws"}, dt \in 0 .. MaxCheckTicks :
          /\ elapsed' = elapsed + dt
          /\ pc' = afterCheck(found)
    /\ console' = <<>>
    /\ UNCHANGED <<textVars, mainVars, browser, cookieFile, hadCookies, caller, timedOut,
                   fileVars, years, yi, started, runningTotal, yearVars, shown>>

\* a timeout that the caller swallows
afterTimeoutSwallowed(c) == "saveCookies"

\* throw new Error("Timed out waiting for condition"): no caller catches it,
\* so "await main()" rejects and the script ends
afterTimeout(c) == "aborted"

\* if (Date.now() - start > timeoutMs) throw ...
WaitTimeout ==
    /\ pc = "waitTest"
    /\ elapsed > WaitTimeoutTicks
    /\ timedOut' = TRUE
    /\ pc' = afterTimeout(caller)
    /\ console' = <<>>
    /\ UNCHANGED <<textVars, mainVars, browser, cookieFile, hadCookies, caller, elapsed,
                   fileVars, years, yi, started, runningTotal, yearVars, shown>>

\* await sleep(intervalMs)
WaitSleep ==
    /\ pc = "waitTest"
    /\ ~(elapsed > WaitTimeoutTicks)
    /\ elapsed' = elapsed + 1
    /\ pc' = "wait"
    /\ console' = <<>>
    /\ UNCHANGED <<textVars, mainVars, browser, cookieFile, hadCookies, caller, timedOut,
                   fileVars, years, yi, started, runningTotal, yearVars, shown>>

\* a save whose failure is not caught
afterSaveUncaught(ok, next) == IF ok THEN next ELSE "aborted"

\* try { await saveCookiesFn(); } catch {}
afterSave(ok, next) == next

\* the save at the end of ensureSignedInAndOnOrders, and the return to the
\* caller; waitUntil has returned and its start is no more
SaveCookies ==
    /\ pc = "saveCookies"
    /\ \E ok \in BOOLEAN :
          /\ cookieFile' = IF ok THEN "stored" ELSE cookieFile
          /\ pc' = afterSave(ok, IF caller = "main" THEN "header" ELSE "reloadList")
    /\ elapsed' = 0
    /\ console' = <<>>
    /\ UNCHANGED <<textVars, mainVars, browser, hadCookies, caller, timedOut, fileVars,
                   years, yi, started, runningTotal, yearVars, shown>>

\* a header that is appended to what the file holds
writeHeaderAppending(file) == Append(file, CSVHeader)

\* fsp.writeFile(csvPath, header): the file holds the header and nothing else
writeHeader(file) == <<CSVHeader>>

\* main: (version 3: the details page is opened;) the header; let runningTotal = 0
WriteHeader ==
    /\ pc = "header"
    /\ csv' = writeHeader(csv)
    /\ headerWrites' = headerWrites + 1
    /\ runningTotal' = 0
    /\ yi' = 1
    /\ pc' = "years"
    /\ console' = <<>>
    /\ UNCHANGED <<textVars, mainVars, browser, cookieFile, hadCookies, caller, waitVars,
                   years, started, yearVars, shown>>

\* for (let i = 0; i < years.length; i++), one year short
yearsLeftButLast(i, n) == i < n

\* for (let i = 0; i < years.length; i++): i is the position yi - 1
yearsLeft(i, n) == i <= n

\* the head of the loop over the years, and the first lines of processYear
StartYear ==
    /\ pc = "years"
    /\ yearsLeft(yi, Len(years))
    /\ started' = Append(started, years[yi])
    /\ \E n \in OrderCounts : siteOrders' = n
    /\ articleOffset' = 0
    /\ yearTotal' = 0
    /\ pageNumber' = IF version = 1 THEN 0 ELSE 1
    /\ pc' = "gotoList"
    /\ console' = <<>>
    /\ UNCHANGED <<textVars, mainVars, browser, cookieFile, hadCookies, caller, waitVars,
                   fileVars, years, yi, runningTotal, listUrl, orderEls, countInPage, oi,
                   shown, pending>>

\* page.goto(listUrl); const hasOrders = await page.$(ORDER_CONTAINER)
GotoList ==
    /\ pc = "gotoList"
    /\ listUrl' = <<years[yi], articleOffset>>
    /\ shown' = ListPage(<<years[yi], articleOffset>>)
    /\ \E hasOrders \in BOOLEAN :
          \/ /\ hasOrders
             /\ pc' = "query"
             /\ console' = <<>>
             /\ UNCHANGED caller
          \/ /\ ~hasOrders
             /\ console' = <<"session might have expired">>
             /\ caller' = "processYear"
             /\ pc' = "ensure"
    /\ UNCHANGED <<textVars, mainVars, browser, cookieFile, hadCookies, waitVars, fileVars,
                   years, yi, started, runningTotal, siteOrders, yearTotal, articleOffset,
                   pageNumber, orderEls, countInPage, oi, pending>>

\* a re-login that goes on from the page the sign-in ended on
urlAfterReloginKept(url, page) == page

\* after the re-login: page.goto(listUrl) once more
urlAfterRelogin(url, page) == ListPage(url)

ReloadList ==
    /\ pc = "reloadList"
    /\ shown' = urlAfterRelogin(listUrl, shown)
    /\ pc' = "query"
    /\ console' = <<>>
    /\ UNCHANGED <<textVars, mainVars, browser, cookieFile, hadCookies, caller, waitVars,
                   fileVars, years, yi, started, runningTotal, yearVars>>

\* the details links collected at once in the listing-page versions too
hrefsStartedEveryVersion(v, els) == Len(els)

\* Promise.all(orderEls.map((el) => el.$eval(...).catch(() => null))): every
\* $eval is started before the first is awaited (version 3 only)
hrefsStarted(v, els) == IF v = 3 THEN Len(els) ELSE 0

\* waitForSelector (its timeout is caught); const orderEls = await page.$$(ORDER_GROUP);
\* if (countInPage === 0) break;
QueryOrders ==
    /\ pc = "query"
    /\ \E els \in {SitePage(version, siteOrders, shown[3])} :
          /\ orderEls' = els
          /\ countInPage' = Len(els)
          /\ oi' = 1
          /\ pending' = hrefsStarted(version, els)
          /\ pc' = IF Len(els) = 0 THEN "endYear"
                   ELSE IF hrefsStarted(version, els) > 0 THEN "hrefs" ELSE "orders"
    /\ console' = <<>>
    /\ UNCHANGED <<textVars, mainVars, browser, cookieFile, hadCookies, caller, waitVars,
                   fileVars, years, yi, started, runningTotal, siteOrders, yearTotal,
                   articleOffset, pageNumber, listUrl, shown>>

\* one of the $eval calls settles (a rejection is caught and gives null);
\* Promise.all resolves when the last has settled
HrefSettled ==
    /\ pc = "hrefs"
    /\ pending > 0
    /\ pending' = pending - 1
    /\ pc' = IF pending = 1 THEN "orders" ELSE "hrefs"
    /\ console' = <<>>
    /\ UNCHANGED <<textVars, mainVars, browser, cookieFile, hadCookies, caller, waitVars,
                   fileVars, years, yi, started, runningTotal, siteOrders, yearTotal,
                   articleOffset, pageNumber, listUrl, orderEls, countInPage, oi, shown>>

\* a total that is set where it should be added to
addOrderTotalOverwriting(total, orderTotal) == orderTotal

\* yearTotal += orderTotal (version 1: runningTotal += ...)
addOrderTotal(total, orderTotal) == total + orderTotal

\* one pass of the loop over orderEls: processOrder and the sum
ProcessOrder ==
    /\ pc = "orders"
    /\ \E r \in {processOrder(version, orderEls[oi])} :
          /\ csv' = csv \o [k \in 1 .. Len(r.rows) |-> csvRow(r.rows[k])]
          /\ console' = r.warnings
          /\ IF version = 1
             THEN runningTotal' = addOrderTotal(runningTotal, r.orderTotal)
                  /\ UNCHANGED yearTotal
             ELSE yearTotal' = addOrderTotal(yearTotal, r.orderTotal)
                  /\ UNCHANGED runningTotal
    /\ oi' = oi + 1
    /\ pc' = IF oi < Len(orderEls) THEN "orders" ELSE "pageEnd"
    /\ UNCHANGED <<textVars, mainVars, browser, cookieFile, hadCookies, caller, waitVars,
                   headerWrites, years, yi, started, siteOrders, articleOffset, pageNumber,
                   listUrl, orderEls, countInPage, shown, pending>>

\* a full page taken for the last
lastPageInclusive(count) == count <= PageSize

\* if (countInPage < 10) break;
lastPage(count) == count < PageSize

\* if (countInPage < 10) break; articleOffset += 10; pageNumber++;
NextPage ==
    /\ pc = "pageEnd"
    /\ IF lastPage(countInPage)
       THEN pc' = "endYear" /\ UNCHANGED <<articleOffset, pageNumber>>
       ELSE /\ articleOffset' = articleOffset + PageSize
            /\ pageNumber' = IF version = 1 THEN 0 ELSE pageNumber + 1
            /\ pc' = "gotoList"
    /\ console' = <<>>
    /\ UNCHANGED <<textVars, mainVars, browser, cookieFile, hadCookies, caller, waitVars,
                   fileVars, years, yi, started, runningTotal, siteOrders, yearTotal,
                   listUrl, orderEls, countInPage, oi, shown, pending>>

\* return yearTotal; runningTotal += yearTotal; the next year
EndYear ==
    /\ pc = "endYear"
    /\ runningTotal' = IF version = 1 THEN runningTotal ELSE runningTotal + yearTotal
    /\ yi' = yi + 1
    /\ pc' = "years"
    /\ console' = <<>>
    /\ UNCHANGED <<textVars, mainVars, browser, cookieFile, hadCookies, caller, waitVars,
                   fileVars, years, started, yearVars, shown>>

\* after the last year: try { await saveCookies(page, cookiesPath); } catch {}
FinalSave ==
    /\ pc = "years"
    /\ ~yearsLeft(yi, Len(years))
    /\ \E ok \in BOOLEAN :
          /\ cookieFile' = IF ok THEN "stored" ELSE cookieFile
          /\ pc' = afterSave(ok, "close")
    /\ console' = <<>>
    /\ UNCHANGED <<textVars, mainVars, browser, hadCookies, caller, waitVars, fileVars,
                   years, yi, started, runningTotal, yearVars, shown>>

\* await browser.close()
Close ==
    /\ pc = "close"
    /\ browser' = "closed"
    /\ pc' = "done"
    /\ console' = <<>>
    /\ UNCHANGED <<textVars, mainVars, cookieFile, hadCookies, caller, waitVars, fileVars,
                   years, yi, started, runningTotal, yearVars, shown>>

Next ==
    \/ Launch \/ LoadCookies \/ Reload
    \/ EnsureGoto \/ WaitCheck \/ WaitTimeout \/ WaitSleep \/ SaveCookies
    \/ WriteHeader \/ StartYear \/ GotoList \/ ReloadList \/ QueryOrders \/ HrefSettled
    \/ ProcessOrder \/ NextPage \/ EndYear \/ FinalSave \/ Close

Spec == RunInit /\ [][Next]_vars

\* the script has neither returned from main nor died of an error: a step
\* can be taken (this is ENABLED <<Next>>_vars)
Running == pc \notin {"done", "aborted"}

\* the run when every awaited operation settles: a step that can be taken is
\* taken in the end. This is WF_vars(Next) with its ENABLED written out.
FairSpec == RunInit /\ [][Next]_vars /\ (<>[]Running => []<><<Next>>_vars)

(***************************************************************************)
(* One order: the run at the head of the loop over the orders of a page    *)
(* that shows a single order, any of the order elements above              *)
(***************************************************************************)
OrderInit ==
    /\ inp = NoInput
    /\ res = NoResult
    /\ version \in 1 .. 3
    /\ argv = << <<"2","0","2","4">> >>
    /\ currentYear = FirstYear + MaxYearSpan
    /\ pc = "orders"
    /\ browser = "open"
    /\ cookieFile = "stored"
    /\ hadCookies = TRUE
    /\ caller = "main"
    /\ elapsed = 0
    /\ timedOut = FALSE
    /\ csv = <<CSVHeader>>
    /\ headerWrites = 1
    /\ years = << <<"2","0","2","4">> >>
    /\ yi = 1
    /\ started = << <<"2","0","2","4">> >>
    /\ siteOrders = 1
    /\ runningTotal = 0
    /\ yearTotal = 0
    /\ articleOffset = 0
    /\ pageNumber = IF version = 1 THEN 0 ELSE 1
    /\ listUrl = << <<"2","0","2","4">>, 0 >>
    /\ orderEls \in { <<o>> : o \in IF version = 3 THEN DetailsOrders ELSE ListingOrders }
    /\ countInPage = 1
    /\ oi = 1
    /\ console = <<>>
    /\ shown = ListPage(<< <<"2","0","2","4">>, 0 >>)
    /\ pending = 0

OrderNext == ProcessOrder \/ NextPage \/ EndYear \/ FinalSave \/ Close

SpecOrder == OrderInit /\ [][OrderNext]_vars

(***************************************************************************)
(* Reading the CSV file back: what a reader of the file sees               *)
(***************************************************************************)
\* the number of double quotes of line from a to b
QuotesIn(line, a, b) == Cardinality({q \in a .. b : line[q] = "\""})

\* the quotes that may close the field whose text starts at i: a ";" or the
\* newline follows, and the quotes of the text before it pair up
FieldEnds(line, i) ==
    { e \in i .. Len(line) - 1 :
        /\ line[e] = "\""
        /\ line[e + 1] \in {";", "\n"}
        /\ QuotesIn(line, i, e - 1) % 2 = 0 }

Least(S) == CHOOSE e \in S : \A x \in S : e <= x

\* every quote of the text from i to e that opens a pair has its second
Doubled(line, i, e) ==
    \A p \in i .. e :
        (line[p] = "\"" /\ QuotesIn(line, i, p - 1) % 2 = 0) =>
            p < e /\ line[p + 1] = "\""

\* the text from i to e, every doubled quote read as one quote
Unescape(line, i, e) ==
    LET marked == [k \in 1 .. e - i + 1 |->
                      [c |-> line[i + k - 1],
                       keep |-> \/ line[i + k - 1] # "\""
                                \/ QuotesIn(line, i, i + k - 2) % 2 = 0]]
        kept == SelectSeq(marked, LAMBDA m : m.keep)
    IN [k \in 1 .. Len(kept) |-> kept[k].c]

NotARow == [ok |-> FALSE, fields |-> <<>>]

\* the fields of a line made of quoted fields joined by ";" and ended by one
\* newline, read from the opening quote at i; ok is FALSE for any other line
RECURSIVE ParseFields(_, _)
ParseFields(line, i) ==
    IF i > Len(line) \/ line[i] # "\"" \/ FieldEnds(line, i + 1) = {} THEN NotARow
    ELSE LET e == Least(FieldEnds(line, i + 1))
             f == Unescape(line, i + 1, e - 1)
         IN IF ~Doubled(line, i + 1, e - 1) THEN NotARow
            ELSE IF e + 1 = Len(line) /\ line[e + 1] = "\n"
            THEN [ok |-> TRUE, fields |-> <<f>>]
            ELSE IF e + 1 < Len(line) /\ line[e + 1] = ";"
            THEN LET r == ParseFields(line, e + 2)
                 IN [ok |-> r.ok, fields |-> <<f>> \o r.fields]
            ELSE NotARow

\* the fields of the k-th line of the file
Fields(k) == ParseFields(csv[k], 1).fields

IsCountText(f) == f # <<>> /\ \A i \in 1 .. Len(f) : IsDigit(f[i])

\* digits, a ".", two digits
IsMoneyText(f) ==
    /\ Len(f) >= 4
    /\ f[Len(f) - 2] = "."
    /\ \A i \in 1 .. Len(f) : i # Len(f) - 2 => IsDigit(f[i])

\* the cents a money field stands for
MoneyCents(f) ==
    100 * DigitsValue(SubSeq(f, 1, Len(f) - 3)) + DigitsValue(SubSeq(f, Len(f) - 1, Len(f)))

ShipmentName == <<"s","h","i","p","m","e","n","t">>

\* the k-th line is a shipping row: no status, count 1, name "shipment"
IsShipRow(k) ==
    /\ Fields(k)[2] = <<>>
    /\ Fields(k)[3] = <<"1">>
    /\ Fields(k)[4] = ShipmentName

\* the rows of the file after the header, less the shipping row at the end
ItemRowCount ==
    Len(csv) - 1 - (IF Len(csv) > 1 /\ IsShipRow(Len(csv)) THEN 1 ELSE 0)

\* the items of an order element, shipment after shipment, each with the
\* status element of its shipment
RECURSIVE FlatItems(_, _)
FlatItems(shipments, k) ==
    IF k > Len(shipments) THEN <<>>
    ELSE [i \in 1 .. Len(shipments[k].items) |->
              [status |-> shipments[k].status, item |-> shipments[k].items[i]]]
           \o FlatItems(shipments, k + 1)

\* the element is not there, or reading it throws
Missing(node) == node.found # "yes"

\* the element is not there or holds no text
Nameless(node) == node.found # "yes" \/ Trim(node.text) = <<>>

RECURSIVE SumOver(_, _, _)
SumOver(f, a, b) == IF a > b THEN 0 ELSE f[a] + SumOver(f, a + 1, b)

ZeroMoney == <<"0",".","0","0">>

DeliveredText == <<"D","e","l","i","v","e","r","e","d">>

Placeholders ==
    { <<"a","r","t","i","c","l","e","_","n","a","m","e","_","s",
                "e","l","e","c","t","o","r"," ","e","r","r","o","r">>, <<"E","R","R","O","R",":"," ","s","e","l","e","c","t","o",
                "r","_","a","r","t","i","c","l","e","_","n","a","m","e",
                " ","n","o","t"," ","f","o","u","n","d">> }

(***************************************************************************)
(* C3: every data row of the CSV file has exactly 7 fields in the order of *)
(* the header (date, shipment status, article count, article name, single  *)
(* price, total price, tags); each field stands between double quotes with *)
(* every double quote of its text doubled, the fields are joined by ";"    *)
(* and the row ends with one newline.                                      *)
(***************************************************************************)
C3_RowFormat ==
    \A k \in 2 .. Len(csv) :
        LET row == ParseFields(csv[k], 1)
        IN /\ row.ok
           /\ Len(row.fields) = 7
           /\ row.fields[1] # <<>>
           /\ IsCountText(row.fields[3])
           /\ IsMoneyText(row.fields[5])
           /\ IsMoneyText(row.fields[6])
           /\ row.fields[7] = <<>>

\* a row whose name holds double quotes has been written and reads back
C3_Witness ==
    /\ pc = "pageEnd"
    /\ \E k \in 2 .. Len(csv) :
          /\ ParseFields(csv[k], 1).ok
          /\ Len(Fields(k)) = 7
          /\ \E i \in 1 .. Len(Fields(k)[4]) : Fields(k)[4][i] = "\""

(***************************************************************************)
(* C4: the header is written exactly once in a run, only after the initial *)
(* sign-in wait has succeeded, and replaces what the file held; every data *)
(* row is written after the header and by append, so that no line written  *)
(* in the run is changed or removed later, a re-login included.            *)
(***************************************************************************)
C4_HeaderOnceAppendOnly ==
    [][ /\ headerWrites' # headerWrites =>
              /\ pc = "header" /\ caller = "main" /\ ~timedOut
              /\ headerWrites = 0 /\ headerWrites' = 1
              /\ csv' = <<CSVHeader>>
        /\ pc' = "header" => pc = "saveCookies" /\ caller = "main"
        /\ (pc' = "saveCookies" /\ caller = "main") => pc = "wait"
        /\ (csv' # csv /\ headerWrites' = headerWrites) =>
              /\ headerWrites = 1
              /\ Len(csv') > Len(csv)
              /\ SubSeq(csv', 1, Len(csv)) = csv
        /\ pc' = "done" => headerWrites' = 1 /\ csv'[1] = CSVHeader ]_vars

\* a run that began with an earlier file, signed in again in the middle and
\* ended with the header and rows of its own
C4_Witness ==
    /\ pc = "done"
    /\ caller = "processYear"
    /\ headerWrites = 1
    /\ csv[1] = CSVHeader
    /\ Len(csv) > 1
    /\ StaleRow \notin {csv[k] : k \in 1 .. Len(csv)}

(***************************************************************************)
(* C5: without an argument the run processes every year from the current   *)
(* year down to 2000, in descending order and each once; with an argument  *)
(* it processes that year and no other.                                    *)
(***************************************************************************)
ExpectedYears ==
    IF argv = <<>>
    THEN [i \in 1 .. currentYear - 2000 + 1 |-> String(currentYear - i + 1)]
    ELSE <<argv[1]>>

C5_YearsProcessed ==
    /\ Len(started) <= Len(ExpectedYears)
    /\ started = SubSeq(ExpectedYears, 1, Len(started))
    /\ pc = "done" => started = ExpectedYears

\* a run without an argument has ended after more than one year, 2000 the last
C5_Witness ==
    /\ pc = "done"
    /\ argv = <<>>
    /\ Len(started) > 1
    /\ started[Len(started)] = String(2000)

(***************************************************************************)
(* C6: a sign-in wait whose window has passed without the orders container *)
(* ends with an error that aborts the run: no year or order is processed   *)
(* after it, and at the initial sign-in the CSV file is not written.       *)
(***************************************************************************)
C6_TimeoutAborts ==
    [][ /\ pc # "aborted"
        /\ (pc = "waitTest" /\ elapsed > WaitTimeoutTicks) =>
              /\ timedOut' /\ pc' = "aborted"
              /\ UNCHANGED <<csv, headerWrites, started, oi, yi, browser>>
        /\ (timedOut' /\ ~timedOut) => pc = "waitTest" /\ elapsed > WaitTimeoutTicks
        /\ (timedOut' /\ caller' = "main") => headerWrites' = 0 /\ csv' \in OldContents
        /\ timedOut' => pc' = "aborted" ]_vars

\* the initial sign-in has timed out over a file of an earlier run
C6_Witness ==
    /\ timedOut
    /\ pc = "aborted"
    /\ caller = "main"
    /\ headerWrites = 0
    /\ csv = <<CSVHeader, StaleRow>>

(***************************************************************************)
(* C7: cookie load and save failures                                       *)
(***************************************************************************)
\* C7 as stated: a failed load and a failed save never abort the run, which
\* goes on to the step that follows the operation when it succeeds (the reload
\* after a load, the header or the list after a save, the close at the end).
C7_AsStated ==
    [][ /\ pc = "loadCookies" => pc' = "reload"
        /\ pc = "saveCookies" => pc' = IF caller = "main" THEN "header" ELSE "reloadList"
        /\ (pc = "years" /\ yi > Len(years)) => pc' = "close" ]_vars

\* C7 amended: neither failure aborts the run. After a failed load the reload
\* of the page is left out and the run goes on to the sign-in; after a load
\* that succeeded the page is reloaded first. After a save the next step is the
\* same whether it failed or not.
C7_CookieFailures ==
    [][ /\ pc = "loadCookies" =>
              /\ pc' = IF hadCookies' THEN "reload" ELSE "ensure"
              /\ cookieFile # "stored" => ~hadCookies'
        /\ pc = "reload" => hadCookies /\ pc' = "ensure"
        /\ pc = "saveCookies" => pc' = IF caller = "main" THEN "header" ELSE "reloadList"
        /\ (pc = "years" /\ yi > Len(years)) => pc' = "close"
        /\ pc' = "aborted" => timedOut' ]_vars

\* a run has ended although the cookie file could not be read at the start and
\* no save succeeded
C7_Witness ==
    /\ pc = "done"
    /\ ~hadCookies
    /\ cookieFile = "corrupt"
    /\ Len(csv) > 1

(***************************************************************************)
(* C8: items whose name, price or status element is missing                *)
(***************************************************************************)
\* the items of the order the loop has just passed
OrderItems == FlatItems(orderEls[1].shipments, 1)

\* the items of the details page that have a name
NamedItems == SelectSeq(OrderItems, LAMBDA it : ~Nameless(it.item.name))

\* the order of the page has been processed, and in version 3 its details
\* page was there
OrderProcessed ==
    /\ pc = "pageEnd"
    /\ version = 3 => orderEls[1].href /\ orderEls[1].loads

\* C8 as stated: in every version each item has its row whatever is missing,
\* and the field of a missing element is empty, a placeholder text or 0.00.
C8_AsStated ==
    OrderProcessed =>
        /\ ItemRowCount = Len(OrderItems)
        /\ \A k \in 1 .. Len(OrderItems) :
              /\ Missing(OrderItems[k].item.name) => Fields(k + 1)[4] \in Placeholders
              /\ Missing(OrderItems[k].item.price) => Fields(k + 1)[5] = ZeroMoney
              /\ Missing(OrderItems[k].status) => Fields(k + 1)[2] = <<>>

\* C8 amended: nothing missing aborts the run. In the listing-page versions
\* every item has its row: a missing name gives the placeholder text, a missing
\* price 0.00 and a missing status the empty string. In the details-page
\* version an item whose name is missing or empty has no row; the items with a
\* name have theirs: a missing price gives 0.00, a missing status "Delivered".
C8_MissingElements ==
    /\ pc # "aborted"
    /\ (OrderProcessed /\ version # 3) =>
          /\ ItemRowCount = Len(OrderItems)
          /\ \A k \in 1 .. Len(OrderItems) :
                /\ Missing(OrderItems[k].item.name) =>
                       Fields(k + 1)[4] = ArticleNamePlaceholder(version)
                /\ Missing(OrderItems[k].item.price) =>
                       Fields(k + 1)[5] = ZeroMoney /\ Fields(k + 1)[6] = ZeroMoney
                /\ Missing(OrderItems[k].status) => Fields(k + 1)[2] = <<>>
    /\ (OrderProcessed /\ version = 3) =>
          /\ ItemRowCount = Len(NamedItems)
          /\ \A k \in 1 .. Len(NamedItems) :
                /\ Fields(k + 1)[4] # <<>>
                /\ Missing(NamedItems[k].item.price) =>
                       Fields(k + 1)[5] = ZeroMoney /\ Fields(k + 1)[6] = ZeroMoney
                /\ Missing(NamedItems[k].status) => Fields(k + 1)[2] = DeliveredText

\* the details page of an order held an item without a name next to one with a
\* name and no status: one row, "Delivered", was written
C8_Witness ==
    /\ OrderProcessed
    /\ version = 3
    /\ Len(NamedItems) = 1
    /\ Len(OrderItems) = 2
    /\ Missing(NamedItems[1].status)
    /\ ItemRowCount = 1
    /\ Fields(2)[2] = DeliveredText

(***************************************************************************)
(* C9: in the details-page version an order without a details link, or     *)
(* whose details page cannot be fetched, is skipped with a warning: no row *)
(* is written for it, it adds 0 to the total of the year, and the loop     *)
(* goes on with the orders after it on the page and on the later pages.    *)
(***************************************************************************)
C9_SkippedOrder ==
    [][ /\ ( /\ pc = "orders" /\ version = 3
             /\ ~orderEls[oi].href \/ ~orderEls[oi].loads ) =>
              /\ console' # <<>>
              /\ csv' = csv
              /\ yearTotal' = yearTotal
              /\ runningTotal' = runningTotal
              /\ oi' = oi + 1
              /\ pc' = IF oi < Len(orderEls) THEN "orders" ELSE "pageEnd"
              /\ UNCHANGED <<orderEls, countInPage, articleOffset, siteOrders, yi>>
        /\ pc' = "pageEnd" => oi' = Len(orderEls') + 1
        /\ (pc = "pageEnd" /\ countInPage = PageSize) =>
              pc' = "gotoList" /\ articleOffset' = articleOffset + PageSize ]_vars

\* two orders have been skipped, the second for a page that could not be
\* fetched, the order after them has its rows, and the loop is at the next one
C9_Witness ==
    /\ version = 3
    /\ pc = "orders"
    /\ oi = 5
    /\ ~orderEls[2].href
    /\ orderEls[3].href /\ ~orderEls[3].loads
    /\ console = <<>>
    /\ yearTotal > 0
    /\ Len(csv) > 3

(***************************************************************************)
(* C10: in the listing-page versions the shipping cost of an order is its  *)
(* price less the line totals (single price times count) of all its items, *)
(* those of returned shipments too, and 0 when that is negative; a row     *)
(* with count 1, name "shipment" and the cost as single and total price    *)
(* is written exactly when the cost is greater than 0.                     *)
(***************************************************************************)
\* the line totals and the totals paid, read from the item rows of the file
LineTotals ==
    [k \in 1 .. Len(OrderItems) |->
        MoneyCents(Fields(k + 1)[5]) * DigitsValue(Fields(k + 1)[3])]

PaidTotals == [k \in 1 .. Len(OrderItems) |-> MoneyCents(Fields(k + 1)[6])]

ExpectedShippingCost ==
    LET price == usdToCents(textOrEmpty(orderEls[1].price))
        items == SumOver(LineTotals, 1, Len(OrderItems))
    IN IF price - items < 0 THEN 0 ELSE price - items

C10_ShippingCost ==
    (OrderProcessed /\ version # 3) =>
        /\ Len(csv) = 1 + Len(OrderItems) + (IF ExpectedShippingCost > 0 THEN 1 ELSE 0)
        /\ ExpectedShippingCost > 0 =>
              /\ IsShipRow(Len(csv))
              /\ Fields(Len(csv))[5] = centsToUSD(ExpectedShippingCost)
              /\ Fields(Len(csv))[6] = centsToUSD(ExpectedShippingCost)
        /\ (IF version = 1 THEN runningTotal ELSE yearTotal)
              = SumOver(PaidTotals, 1, Len(OrderItems)) + ExpectedShippingCost

\* an order of 7.49 whose returned items come to 2.97 has a shipping row of 4.52
C10_Witness ==
    /\ OrderProcessed
    /\ version = 2
    /\ Len(OrderItems) = 2
    /\ \E k \in 1 .. 2 : MoneyCents(Fields(k + 1)[6]) = 0 /\ MoneyCents(Fields(k + 1)[5]) > 0
    /\ Len(csv) = 4
    /\ IsShipRow(4)
    /\ Fields(4)[5] = <<"4", ".", "5", "2">>


OrderDetails == getOrderDetails(orderEls[1])[1]

\* const taxCents = usdToCents(details.tax)
TaxCents == usdToCents(OrderDetails.tax)

\* C12 as stated: when the details page of an order states a tax greater than
\* 0, a row written for the order carries the amount in one of its fields.
C12_TaxInCsv ==
    (OrderProcessed /\ version = 3 /\ TaxCents > 0) =>
        \E k \in 2 .. Len(csv) :
            \E j \in 1 .. Len(Fields(k)) : Fields(k)[j] = centsToUSD(TaxCents)

(***************************************************************************)
(* C13: after each year the running total is the sum of the year totals of *)
(* the years processed so far, and each year total is the sum of the       *)
(* values processOrder returned for the orders of all the listing pages of *)
(* the year, each order once.                                              *)
(***************************************************************************)
\* the k-th order of the year as the site lists it
SiteOrder(v, k) == Catalog(v)[((k - 1) % Len(Catalog(v))) + 1]

\* the values processOrder returns for the orders a to n of the year, summed
RECURSIVE OrdersValue(_, _, _)
OrdersValue(v, a, n) ==
    IF a > n THEN 0
    ELSE processOrder(v, SiteOrder(v, a)).orderTotal + OrdersValue(v, a + 1, n)

\* the total the orders of the year at hand are summed in
TotalOfOrders == IF version = 1 THEN runningTotal ELSE yearTotal

C13_Totals ==
    [][ /\ pc = "header" => runningTotal' = 0
        /\ (pc = "years" /\ pc' = "gotoList") => yearTotal' = 0 /\ runningTotal' = runningTotal
        /\ pc = "orders" =>
              TotalOfOrders' = TotalOfOrders
                  + processOrder(version, SiteOrder(version, articleOffset + oi)).orderTotal
        /\ (pc = "endYear" /\ version # 1) =>
              /\ yearTotal = OrdersValue(version, 1, siteOrders)
              /\ runningTotal' = runningTotal + yearTotal
        /\ (pc = "endYear" /\ version = 1) =>
              /\ runningTotal' = runningTotal
              /\ yi = 1 => runningTotal = OrdersValue(version, 1, siteOrders)
        /\ (pc \notin {"header", "orders", "endYear"}) =>
              runningTotal' = runningTotal
        /\ (pc \notin {"years", "orders"}) => yearTotal' = yearTotal ]_vars

\* two years are finished, the second of more than a page of orders, and both
\* have added to the running total
C13_Witness ==
    /\ pc = "years"
    /\ yi = 3
    /\ version = 2
    /\ siteOrders = PageSize + MaxOver
    /\ yearTotal = OrdersValue(2, 1, PageSize + MaxOver)
    /\ yearTotal > 0
    /\ runningTotal > yearTotal

(***************************************************************************)
(* C14: with the N orders of a year served 10 per page by start index,     *)
(* processYear requests the start indices 0, 10, 20, ... in this order,    *)
(* processes each of the N orders once and in the order of the listing,    *)
(* and stops after the first page of fewer than 10 orders; when N is a     *)
(* positive multiple of 10 that page is one further, empty page.           *)
(***************************************************************************)
\* the lines the orders a to n of the year add to the file
RECURSIVE YearLines(_, _, _)
YearLines(v, a, n) ==
    IF a > n THEN <<>>
    ELSE LET rows == processOrder(v, SiteOrder(v, a)).rows
         IN [k \in 1 .. Len(rows) |-> csvRow(rows[k])] \o YearLines(v, a + 1, n)

\* how many orders the page at start index o holds
OrdersFrom(o) ==
    IF siteOrders - o > PageSize THEN PageSize
    ELSE IF siteOrders - o < 0 THEN 0 ELSE siteOrders - o

C14_Pagination ==
    [][ /\ (pc = "years" /\ pc' = "gotoList") => articleOffset' = 0
        /\ pc = "gotoList" => listUrl' = <<years[yi], articleOffset>>
        /\ pc = "query" =>
              /\ shown = ListPage(<<years[yi], articleOffset>>)
              /\ countInPage' = OrdersFrom(articleOffset)
              /\ \A k \in 1 .. countInPage' :
                    orderEls'[k] = SiteOrder(version, articleOffset + k)
              /\ oi' = 1
              /\ pc' = "endYear" <=> countInPage' = 0
        /\ pc = "orders" =>
              /\ oi <= countInPage
              /\ csv' = csv \o YearLines(version, articleOffset + oi, articleOffset + oi)
              /\ oi' = oi + 1
              /\ pc' = IF oi = countInPage THEN "pageEnd" ELSE "orders"
        /\ pc = "pageEnd" =>
              IF countInPage < PageSize
              THEN pc' = "endYear" /\ articleOffset' = articleOffset
              ELSE pc' = "gotoList" /\ articleOffset' = articleOffset + PageSize
        /\ (pc \notin {"years", "pageEnd"}) => articleOffset' = articleOffset
        /\ pc = "endYear" =>
              /\ countInPage < PageSize
              /\ articleOffset + countInPage = siteOrders
              /\ (siteOrders > 0 /\ siteOrders % PageSize = 0) =>
                    countInPage = 0 /\ listUrl = <<years[yi], siteOrders>>
              /\ yi = 1 => csv = <<CSVHeader>> \o YearLines(version, 1, siteOrders) ]_vars

\* a year of exactly one full page has been processed: the page at start
\* index 10 was loaded and was empty
C14_Witness ==
    /\ pc = "endYear"
    /\ siteOrders = PageSize
    /\ listUrl[2] = PageSize
    /\ countInPage = 0
    /\ csv = <<CSVHeader>> \o YearLines(version, 1, PageSize)
    /\ Len(csv) > PageSize

(***************************************************************************)
(* C15: in the listing-page versions the Total Price of an item row is the *)
(* single price times the article count when the status of its shipment    *)
(* has none of the words Return, Returned, Refund, Refunded, Replacement    *)
(* in any letter case, and 0.00 when it has one; the items of a returned    *)
(* shipment are left out of the sum paid but are counted in the item total  *)
(* that is taken from the order price to get the shipping cost.             *)
(***************************************************************************)
ReturnWords == { <<"r","e","t","u","r","n">>, <<"r","e","f","u","n","d">>, <<"r","e","p","l","a","c","e","m","e","n","t">> }

\* w stands in s from position i on, the case of the letters left aside
StandsAt(s, i, w) ==
    /\ i + Len(w) - 1 <= Len(s)
    /\ \A j \in 1 .. Len(w) : Lower(s[i + j - 1]) = w[j]

\* a status that tells of a return, a refund or a replacement
TellsOfReturn(status) ==
    \E w \in ReturnWords : \E i \in 1 .. Len(status) : StandsAt(status, i, w)

\* the rows of the items whose shipment was (was not) returned
ReturnedRows == { k \in 1 .. Len(OrderItems) : TellsOfReturn(Fields(k + 1)[2]) }

KeptRows == (1 .. Len(OrderItems)) \ ReturnedRows

RECURSIVE SumIn(_, _)
SumIn(f, S) ==
    IF S = {} THEN 0 ELSE LET k == CHOOSE x \in S : TRUE IN f[k] + SumIn(f, S \ {k})

C15_ReturnedShipments ==
    (OrderProcessed /\ version # 3) =>
        /\ \A k \in KeptRows : Fields(k + 1)[6] = centsToUSD(LineTotals[k])
        /\ \A k \in ReturnedRows : Fields(k + 1)[6] = ZeroMoney
        /\ LET price == usdToCents(textOrEmpty(orderEls[1].price))
               all == SumIn(LineTotals, 1 .. Len(OrderItems))
               shipping == IF price - all < 0 THEN 0 ELSE price - all
           IN TotalOfOrders = SumIn(LineTotals, KeptRows) + shipping

\* an order of a kept shipment and of one whose status says REFUND: the row of
\* the refunded item has its single price and a total of 0.00, and what the
\* order adds is less than the total of its items
C15_Witness ==
    /\ OrderProcessed
    /\ version = 2
    /\ Len(OrderItems) = 2
    /\ ReturnedRows = {2}
    /\ MoneyCents(Fields(3)[5]) > 0
    /\ Fields(3)[6] = ZeroMoney
    /\ MoneyCents(Fields(2)[6]) > 0
    /\ TotalOfOrders = MoneyCents(Fields(2)[6])

(***************************************************************************)
(* C16: in the details-page version the Total Price of an item row is the  *)
(* single price times the quantity only when the status of its shipment is *)
(* exactly "Delivered", and 0.00 for every other status; a shipment with   *)
(* no status element or an empty status text counts as "Delivered".        *)
(***************************************************************************)
C16_DeliveredOnly ==
    (OrderProcessed /\ version = 3) =>
        \A k \in 1 .. Len(NamedItems) :
            LET f == Fields(k + 1)
                line == MoneyCents(f[5]) * DigitsValue(f[3])
            IN /\ f[6] = IF f[2] = DeliveredText THEN centsToUSD(line) ELSE ZeroMoney
               /\ f[2] = IF Nameless(NamedItems[k].status) THEN DeliveredText
                         ELSE Trim(NamedItems[k].status.text)

\* a shipment with an empty status text and one with "Delivered May 3": the
\* item of the first has its total, 4 times 2.00, the item of the second 0.00
C16_Witness ==
    /\ OrderProcessed
    /\ version = 3
    /\ Len(NamedItems) = 2
    /\ NamedItems[1].status = Node(<<>>)
    /\ Fields(2)[2] = DeliveredText
    /\ Fields(2)[6] = <<"8", ".", "0", "0">>
    /\ Len(Fields(3)[2]) > Len(DeliveredText)
    /\ SubSeq(Fields(3)[2], 1, Len(DeliveredText)) = DeliveredText
    /\ MoneyCents(Fields(3)[5]) > 0
    /\ Fields(3)[6] = ZeroMoney

(***************************************************************************)
(* C17: what an order adds to the total                                    *)
(***************************************************************************)
\* the Total Price fields of the rows of the file, summed
RowTotals == SumIn([k \in 1 .. Len(csv) - 1 |-> MoneyCents(Fields(k + 1)[6])],
                   1 .. Len(csv) - 1)

\* C17 as stated: in every version the amount an order adds to the year total
\* is the sum of the Total Price values of the rows written for it, the item
\* rows and the shipping row together.
C17_TotalIsRowSum == pc = "pageEnd" => TotalOfOrders = RowTotals

(***************************************************************************)
(* C18: when a listing page loads without the orders container,            *)
(* processYear runs the sign-in wait and then loads the same listing URL   *)
(* again: the year, the start index, the page number, the year total and   *)
(* the CSV file are after the re-login what they were before it, so that   *)
(* no order is skipped and none is written twice.                          *)
(***************************************************************************)
\* the sign-in wait that processYear has called is under way
InRelogin ==
    /\ caller = "processYear"
    /\ pc \in {"ensure", "wait", "waitTest", "saveCookies", "reloadList"}

C18_ReloginKeepsPlace ==
    [][ /\ (pc = "gotoList" /\ pc' # "query") =>
              /\ pc' = "ensure" /\ caller' = "processYear"
              /\ console' # <<>>
        /\ InRelogin =>
              /\ UNCHANGED <<years, yi, started, articleOffset, pageNumber, listUrl,
                             yearTotal, runningTotal, csv, headerWrites, siteOrders>>
              /\ listUrl = <<years[yi], articleOffset>>
        /\ (InRelogin /\ pc = "saveCookies") => pc' = "reloadList"
        /\ pc = "reloadList" => pc' = "query" /\ shown' = ListPage(listUrl)
        /\ pc = "query" =>
              /\ shown = ListPage(<<years[yi], articleOffset>>)
              /\ orderEls' = SitePage(version, siteOrders, articleOffset) ]_vars

\* the session expired at the second page of a year: the sign-in wait is over
\* and the page at start index 10 is about to be loaded again
C18_Witness ==
    /\ pc = "reloadList"
    /\ caller = "processYear"
    /\ shown = Page("orders")
    /\ articleOffset = PageSize
    /\ listUrl[2] = PageSize
    /\ TotalOfOrders > 0
    /\ Len(csv) > PageSize

(***************************************************************************)
(* C19: waitUntil evaluates its condition at least once before it can time *)
(* out, treats a condition that throws like one that returned false,       *)
(* returns true at the first evaluation that is truthy (also when the      *)
(* deadline passed while that evaluation ran), and between two evaluations *)
(* either throws the timeout error or sleeps one interval; it returns      *)
(* nothing but true.                                                       *)
(***************************************************************************)
C19_WaitUntil ==
    /\ [](pc = "wait" => ENABLED (WaitCheck /\ pc' = "saveCookies"))
    /\ [][ /\ pc = "ensure" => pc' = "wait" /\ elapsed' = 0
           /\ pc = "wait" =>
                 /\ pc' \in {"saveCookies", "waitTest"}
                 /\ elapsed' >= elapsed
                 /\ ~timedOut'
           /\ pc' = "waitTest" => pc = "wait"
           /\ pc' = "saveCookies" => pc = "wait"
           /\ pc' = "wait" => pc \in {"ensure", "waitTest"}
           /\ pc = "waitTest" =>
                 IF elapsed > WaitTimeoutTicks
                 THEN timedOut' /\ pc' = "aborted"
                 ELSE ~timedOut' /\ pc' = "wait" /\ elapsed' = elapsed + 1
           /\ (timedOut' /\ ~timedOut) => pc = "waitTest" ]_vars

\* waitUntil has returned true from an evaluation that came after the end of
\* the window
C19_Witness ==
    /\ pc = "saveCookies"
    /\ elapsed > WaitTimeoutTicks
    /\ ~timedOut

(***************************************************************************)
(* C20: provided every sign-in wait succeeds and every year has finitely   *)
(* many orders served 10 per page, the run terminates: after the last      *)
(* year it attempts one final cookie save and then closes the browser, and *)
(* the browser is closed only after every year has been processed.         *)
(***************************************************************************)
C20_Terminates ==
    /\ <>(timedOut \/ (pc = "done" /\ browser = "closed"))
    /\ [](browser = "closed" =>
              /\ pc = "done"
              /\ started = years
              /\ yi = Len(years) + 1
              /\ headerWrites = 1)
    /\ [][ /\ pc' = "close" => pc = "years" /\ yi = Len(years) + 1 /\ started = years
           /\ pc = "close" => pc' = "done" /\ browser' = "closed"
           /\ pc' = "done" => pc = "close"
           /\ browser' # browser =>
                 \/ pc = "start" /\ browser' = "open"
                 \/ pc = "close" /\ browser' = "closed"
           /\ (pc = "endYear" /\ yi = Len(years)) => pc' = "years" /\ yi' = Len(years) + 1
           /\ (pc = "years" /\ yi = Len(years) + 1) => pc' = "close" ]_vars

\* a run over two years, with a re-login on the way and a final save that
\* failed, has closed the browser
C20_Witness ==
    /\ pc = "done"
    /\ browser = "closed"
    /\ ~timedOut
    /\ Len(started) = 2
    /\ caller = "processYear"
    /\ cookieFile # "stored"
    /\ Len(csv) > 1

(***************************************************************************)
(* C21: what usdToCents reads back and where it gives 0                    *)
(***************************************************************************)
\* a digit, a "." and two digits stand in s from i on
DigitDotTwoDigits(s, i) ==
    /\ i + 3 <= Len(s)
    /\ IsDigit(s[i])
    /\ s[i + 1] = "."
    /\ IsDigit(s[i + 2])
    /\ IsDigit(s[i + 3])

\* s holds an amount that has exactly two decimals: no third digit follows
HasTwoDecimalAmount(s) ==
    \E i \in 1 .. Len(s) :
        /\ DigitDotTwoDigits(s, i)
        /\ (i + 4 <= Len(s) => ~IsDigit(s[i + 4]))

\* s holds an amount with two decimals or more
HasDecimalAmount(s) == \E i \in 1 .. Len(s) : DigitDotTwoDigits(s, i)

\* C21 as stated: usdToCents(centsToUSD(c)) = c for every number of cents
\* c >= 0; usdToCents gives 0 for an empty or absent value and for a text with
\* no amount that has exactly two decimals; its result is never negative.
C21_AsStated ==
    /\ res.op = "roundTrip" => res.val = inp.cents
    /\ (res.op = "usdToCents" /\ ~HasTwoDecimalAmount(inp.text)) => res.val = 0
    /\ res.op \in {"usdToCents", "roundTrip"} => res.val >= 0

\* C21 amended: usdToCents(centsToUSD(c)) = c for every number of cents c >= 0
\* that centsToUSD writes exactly; usdToCents gives 0 for an empty or absent
\* value and for a text in which no digit is followed by a "." and two digits
\* (further decimals after the two do not make it 0: "$5.123" gives 512);
\* its result is never negative.
C21_RoundTripAndZero ==
    /\ res.op = "roundTrip" => res.val = inp.cents
    /\ (res.op = "usdToCents" /\ ~HasDecimalAmount(inp.text)) => res.val = 0
    /\ res.op \in {"usdToCents", "roundTrip"} => res.val >= 0

\* 123456 cents have been written as "1234.56" and read back as 123456
C21_Witness ==
    /\ inp.kind = "cents"
    /\ inp.cents = 123456
    /\ res.op = "roundTrip"
    /\ res.name = <<"1","2","3","4",".","5","6">>
    /\ res.val = 123456
=============================================================================
